---- MODULE Spec2Model ----
(***************************************************************************)
(* Verification model of Terminal-Orchestrator-MCP:                        *)
(*   - PaneIdResolver   (src/src/utils/errors.ts, 218-450)                 *)
(*   - FileWatcher      (src/src/utils/errors.ts, 78-193)                  *)
(*   - McpIntegrator    (src/src/core/mcp-integrator.ts)                   *)
(*   - ErrorWatcher     (src/src/core/index.ts): error history,            *)
(*                      classification of build output, watching of panes  *)
(*   - CommandEscaper   (src/src/utils/errors.ts, 481-792) with its        *)
(*                      callers TmuxManager.initialize                     *)
(*                      (src/src/core/tmux-manager.ts) and                 *)
(*                      ProcessMonitor.listPorts (src/unnamed/part_003)    *)
(*   - LogAnalyzer      (src/unnamed/part_001): classification of lines,   *)
(*                      the pattern list                                   *)
(*   - SessionSerializer (src/unnamed/part_002, 281-332): session handoffs *)
(* Strings of the program are modelled as sequences of one-character       *)
(* strings, so that prefix tests, splitting, formatting and parsing are    *)
(* computed rather than assumed.                                           *)
(***************************************************************************)
EXTENDS Integers, Sequences, FiniteSets, TLC

(***************************************************************************)
(* Bounds of the model                                                     *)
(***************************************************************************)
\* the resolver's clock runs over 0 .. MaxTime ticks of one hour
MaxTime == 2

(***************************************************************************)
(* String helpers (String.prototype.startsWith / includes / split,         *)
(* parseInt and template-literal number formatting)                        *)
(***************************************************************************)
None == <<"none">>

Digits == <<"0", "1", "2", "3", "4", "5", "6", "7", "8", "9">>

IsDigit(c) == \E i \in 1..10 : Digits[i] = c

DigitVal(c) == (CHOOSE i \in 1..10 : Digits[i] = c) - 1

StartsWith(str, c) == Len(str) > 0 /\ str[1] = c

Includes(str, c) == \E i \in 1..Len(str) : str[i] = c

\* index of the first occurrence of c in str, 0 when there is none
IndexOf(str, c) ==
  IF Includes(str, c) THEN CHOOSE i \in 1..Len(str) : str[i] = c /\ \A j \in 1..(i-1) : str[j] # c
  ELSE 0

RECURSIVE Split(_, _)
\* str.split(c): the pieces of str between the occurrences of c
Split(str, c) ==
  IF IndexOf(str, c) = 0 THEN <<str>>
  ELSE <<SubSeq(str, 1, IndexOf(str, c) - 1)>> \o Split(SubSeq(str, IndexOf(str, c) + 1, Len(str)), c)

RECURSIVE NumberToString(_)
\* `${n}` for a non-negative integer
NumberToString(n) == IF n < 10 THEN <<Digits[n + 1]>> ELSE NumberToString(n \div 10) \o <<Digits[(n % 10) + 1]>>

\* parseInt yields NaN when the text has no leading digit (the identifiers of
\* the model carry no sign and no leading blank)
NaN == -1

RECURSIVE ParseDigits(_, _)
ParseDigits(str, acc) ==
  IF Len(str) = 0 \/ ~IsDigit(Head(str)) THEN acc
  ELSE ParseDigits(Tail(str), acc * 10 + DigitVal(Head(str)))

\* parseInt(str, 10): the value of the longest prefix of digits
ParseInt(str) == IF Len(str) = 0 \/ ~IsDigit(Head(str)) THEN NaN ELSE ParseDigits(str, 0)

(***************************************************************************)
(* Map helpers (ES Map get / has / set / delete)                           *)
(***************************************************************************)
Has(m, k) == k \in DOMAIN m

MapSet(m, k, v) == [x \in (DOMAIN m) \cup {k} |-> IF x = k THEN v ELSE m[x]]

MapDelete(m, k) == [x \in (DOMAIN m) \ {k} |-> m[x]]

EmptyMap == [x \in {} |-> None]

(***************************************************************************)
(* PaneIdResolver: inputs                                                  *)
(***************************************************************************)
NativeIds == { <<"%", "1">>, <<"%", "2">> }

\* session names as tmux produces them (no ':' and no '.', not starting with '%')
SessionNames == { <<"a">>, <<"b">> }

\* the (session, window, pane) positions that list-panes reports: two panes of
\* one window of session a, one pane of another window of session b
Triples == { <<<<"a">>, 0, 0>>, <<<<"a">>, 0, 1>>, <<<<"b">>, 1, 0>> }

\* hour-old cutoff of the sweep, in ticks of one hour (60 * 60 * 1000 ms)
MaxAgeTicks == 1

VARIABLES
  nativeToStructured,   \* Map<nativeId, PaneMapping>
  structuredToNative,   \* Map<structuredId, PaneMapping>: the object stored under nativeToStructured when it was set
  now,                  \* Date.now() of the resolver, in ticks of one hour
  resolverCall          \* the last resolver operation, its arguments and its return value

resolverVars == <<nativeToStructured, structuredToNative, now, resolverCall>>

\* `${sessionName}:${windowIndex}.${paneIndex}`
buildStructuredId(sessionName, windowIndex, paneIndex) ==
  sessionName \o <<":">> \o NumberToString(windowIndex) \o <<".">> \o NumberToString(paneIndex)

StructuredIds == { buildStructuredId(t[1], t[2], t[3]) : t \in Triples }

\* identifiers handed to the resolve operations that no registration produces:
\* an unknown native handle, an unknown structured id, a name of neither shape,
\* a structured-shaped id with two colons and a non-canonical spelling of a:0.0
OtherIds ==
  { <<"%", "9">>, <<"u", ":", "0", ".", "0">>, <<"x">>,
    <<"a", ":", "b", ":", "0", ".", "0">>, <<"a", ":", "0", "0", ".", "0">> }

ResolveInputs == NativeIds \cup StructuredIds \cup OtherIds

PaneMapping(nativeId, sessionName, windowIndex, paneIndex, lastSeen) ==
  [ nativeId |-> nativeId,
    structuredId |-> buildStructuredId(sessionName, windowIndex, paneIndex),
    sessionName |-> sessionName, windowIndex |-> windowIndex, paneIndex |-> paneIndex,
    lastSeen |-> lastSeen ]

\* updateLastSeen(nativeId): the two maps after mapping.lastSeen = new Date()
\* on the object under nativeToStructured.  registerPane puts one object into
\* both maps, so the entry of structuredToNative under the object's
\* structuredId is the same object, and changes with it, exactly when it
\* still holds this native id; an entry left behind by a later registration
\* of the native id under another position is another object and keeps its
\* lastSeen.
updateLastSeen(nativeId) ==
  IF Has(nativeToStructured, nativeId)
  THEN LET mapping == nativeToStructured[nativeId]
           seen == [ mapping EXCEPT !.lastSeen = now ]
       IN  [ nativeToStructured |-> MapSet(nativeToStructured, nativeId, seen),
             structuredToNative |->
               IF Has(structuredToNative, mapping.structuredId)
                    /\ structuredToNative[mapping.structuredId].nativeId = nativeId
               THEN MapSet(structuredToNative, mapping.structuredId, seen)
               ELSE structuredToNative ]
  ELSE [ nativeToStructured |-> nativeToStructured, structuredToNative |-> structuredToNative ]

\* attemptStructuredResolution with the session-name comparison of the scan left out
attemptStructuredResolutionAnySession(structuredId) ==
  LET parts == Split(structuredId, ":") IN
  IF Len(parts) # 2 THEN None
  ELSE LET windowPaneParts == Split(parts[2], ".") IN
    IF Len(windowPaneParts) # 2 THEN None
    ELSE LET windowIndex == ParseInt(windowPaneParts[1])
             paneIndex == ParseInt(windowPaneParts[2])
             hits == { n \in DOMAIN nativeToStructured :
                         /\ nativeToStructured[n].windowIndex = windowIndex
                         /\ nativeToStructured[n].paneIndex = paneIndex }
         IN IF windowIndex = NaN \/ paneIndex = NaN THEN None
            ELSE IF hits = {} THEN None
            ELSE (CHOOSE n \in hits : TRUE)

\* attemptStructuredResolution(structuredId): native id or None
attemptStructuredResolution(structuredId) ==
  LET parts == Split(structuredId, ":") IN
  IF Len(parts) # 2 THEN None
  ELSE LET windowPaneParts == Split(parts[2], ".") IN
    IF Len(windowPaneParts) # 2 THEN None
    ELSE LET windowIndex == ParseInt(windowPaneParts[1])
             paneIndex == ParseInt(windowPaneParts[2])
             hits == { n \in DOMAIN nativeToStructured :
                         /\ nativeToStructured[n].sessionName = parts[1]
                         /\ nativeToStructured[n].windowIndex = windowIndex
                         /\ nativeToStructured[n].paneIndex = paneIndex }
         IN IF windowIndex = NaN \/ paneIndex = NaN THEN None
            ELSE IF hits = {} THEN None
            ELSE (CHOOSE n \in hits : TRUE)

\* return value of resolveToNative(paneId)
resolveToNativeResult(paneId) ==
  IF StartsWith(paneId, "%") THEN paneId
  ELSE IF Has(structuredToNative, paneId) THEN structuredToNative[paneId].nativeId
  ELSE IF Includes(paneId, ":") /\ Includes(paneId, ".") /\ attemptStructuredResolution(paneId) # None
       THEN attemptStructuredResolution(paneId)
  ELSE paneId

\* return value of resolveToStructured(paneId)
resolveToStructuredResult(paneId) ==
  IF ~StartsWith(paneId, "%") THEN paneId
  ELSE IF Has(nativeToStructured, paneId) THEN nativeToStructured[paneId].structuredId
  ELSE paneId

\* getSessionMappings(sessionName): the native ids of the session's mappings
getSessionMappings(sessionName) ==
  { n \in DOMAIN nativeToStructured : nativeToStructured[n].sessionName = sessionName }

ResolverInit ==
  /\ nativeToStructured = EmptyMap
  /\ structuredToNative = EmptyMap
  /\ now = 0
  /\ resolverCall = [ op |-> "new" ]

\* registerPane with the clean-up of the position's old native entry left out
registerPaneNoEvict(nativeId, sessionName, windowIndex, paneIndex) ==
  LET mapping == PaneMapping(nativeId, sessionName, windowIndex, paneIndex, now)
      structuredId == mapping.structuredId
  IN /\ nativeToStructured' = MapSet(nativeToStructured, nativeId, mapping)
     /\ structuredToNative' = MapSet(structuredToNative, structuredId, mapping)
     /\ resolverCall' = [ op |-> "registerPane", nativeId |-> nativeId, sessionName |-> sessionName,
                          windowIndex |-> windowIndex, paneIndex |-> paneIndex,
                          previous |-> IF Has(structuredToNative, structuredId)
                                       THEN structuredToNative[structuredId].nativeId ELSE None,
                          result |-> structuredId ]
     /\ UNCHANGED now

\* registerPane(nativeId, sessionName, windowIndex, paneIndex)
registerPane(nativeId, sessionName, windowIndex, paneIndex) ==
  LET mapping == PaneMapping(nativeId, sessionName, windowIndex, paneIndex, now)
      structuredId == mapping.structuredId
      evict == Has(structuredToNative, structuredId)
                 /\ structuredToNative[structuredId].nativeId # nativeId
      cleaned == IF evict THEN MapDelete(nativeToStructured, structuredToNative[structuredId].nativeId)
                 ELSE nativeToStructured
  IN /\ nativeToStructured' = MapSet(cleaned, nativeId, mapping)
     /\ structuredToNative' = MapSet(structuredToNative, structuredId, mapping)
     /\ resolverCall' = [ op |-> "registerPane", nativeId |-> nativeId, sessionName |-> sessionName,
                          windowIndex |-> windowIndex, paneIndex |-> paneIndex,
                          previous |-> IF Has(structuredToNative, structuredId)
                                       THEN structuredToNative[structuredId].nativeId ELSE None,
                          result |-> structuredId ]
     /\ UNCHANGED now

\* resolveToNative(paneId)
resolveToNative(paneId) ==
  LET seen == IF StartsWith(paneId, "%") THEN updateLastSeen(paneId)
              ELSE IF Has(structuredToNative, paneId)
                   THEN updateLastSeen(structuredToNative[paneId].nativeId)
              ELSE updateLastSeen(None)
  IN  /\ nativeToStructured' = seen.nativeToStructured
      /\ structuredToNative' = seen.structuredToNative
      /\ resolverCall' = [ op |-> "resolveToNative", paneId |-> paneId,
                           result |-> resolveToNativeResult(paneId) ]
      /\ UNCHANGED now

\* resolveToStructured(paneId)
resolveToStructured(paneId) ==
  LET seen == IF StartsWith(paneId, "%") /\ Has(nativeToStructured, paneId)
              THEN updateLastSeen(paneId)
              ELSE updateLastSeen(None)
  IN  /\ nativeToStructured' = seen.nativeToStructured
      /\ structuredToNative' = seen.structuredToNative
      /\ resolverCall' = [ op |-> "resolveToStructured", paneId |-> paneId,
                           result |-> resolveToStructuredResult(paneId) ]
      /\ UNCHANGED now

\* clearSession(sessionName)
clearSession(sessionName) ==
  LET mappings == getSessionMappings(sessionName) IN
  /\ nativeToStructured' = [ n \in (DOMAIN nativeToStructured) \ mappings |-> nativeToStructured[n] ]
  /\ structuredToNative' =
       [ k \in (DOMAIN structuredToNative) \ { nativeToStructured[n].structuredId : n \in mappings }
           |-> structuredToNative[k] ]
  /\ resolverCall' = [ op |-> "clearSession", sessionName |-> sessionName ]
  /\ UNCHANGED now

\* cleanupOldMappings(), run by the interval timer
cleanupOldMappings ==
  LET cutoff == now - MaxAgeTicks
      old == { n \in DOMAIN nativeToStructured : nativeToStructured[n].lastSeen < cutoff }
  IN /\ nativeToStructured' = [ n \in (DOMAIN nativeToStructured) \ old |-> nativeToStructured[n] ]
     /\ structuredToNative' =
          [ k \in (DOMAIN structuredToNative) \ { nativeToStructured[n].structuredId : n \in old }
              |-> structuredToNative[k] ]
     /\ resolverCall' = [ op |-> "sweep" ]
     /\ UNCHANGED now

(***************************************************************************)
(* FileWatcher                                                             *)
(***************************************************************************)
\* the watched file holds at most MaxFileLen bytes
MaxFileLen == 2
\* change-notification handlers that can be in flight at once
MaxHandlers == 2
\* truncations of the watched file in one run
MaxTruncations == 1
\* options.maxFileSize of the model's watcher, in bytes
maxFileSize == 1

LogFile == <<"pane.log">>

\* bytes written to the log: a printing character and a blank
Bytes == { "x", " " }

\* a byte of the zero-filled buffer that the read did not overwrite
NUL == "NUL"

VARIABLES
  fileContent,     \* the bytes of the watched file on disk
  watchers,        \* keys of Map<filePath, FSWatcher>
  filePositions,   \* Map<filePath, number>
  callbacks,       \* Map<filePath, callback>
  handlers,        \* the invocations of handleFileChange in flight, with their locals
  delivered,       \* the callback invocations so far: file offset and text
  changes,         \* 'change' events the watcher has raised and not yet dispatched
  truncations,     \* how often the file was truncated
  tailerCall       \* the last of: a handler started (and what was last before), a handler reset the offset, the watch was stopped

tailerVars == <<fileContent, watchers, filePositions, callbacks, handlers, delivered, changes, truncations, tailerCall>>

IdleHandler == [ pc |-> "idle", currentPosition |-> 0, size |-> 0 ]

TailerInit ==
  /\ fileContent = <<>>
  /\ watchers = {}
  /\ filePositions = EmptyMap
  /\ callbacks = EmptyMap
  /\ handlers = [ h \in 1..MaxHandlers |-> IdleHandler ]
  /\ delivered = <<>>
  /\ changes = 0
  /\ truncations = 0
  /\ tailerCall = [ op |-> "new" ]

\* String.prototype.trim() leaves the empty string: every character is white space
TrimIsEmpty(text) == \A i \in 1..Len(text) : text[i] = " "

\* fileHandle.read(buffer, 0, length, position) into Buffer.alloc(length), decoded:
\* the bytes the file holds in [position, position + length), the rest left zero
ReadBuffer(length, position) ==
  [ i \in 1..length |-> IF position + i <= Len(fileContent) THEN fileContent[position + i] ELSE NUL ]

\* watchFile(filePath, callback) on a path that is not watched yet; a path
\* is watched once in a run
watchFile(filePath) ==
  /\ filePath \notin watchers
  /\ tailerCall.op \notin { "stopWatching", "stopAll" }
  /\ filePositions' = MapSet(filePositions, filePath,
                             IF Len(fileContent) > maxFileSize THEN Len(fileContent) ELSE 0)
  /\ callbacks' = MapSet(callbacks, filePath, "callback")
  /\ watchers' = watchers \cup {filePath}
  /\ UNCHANGED <<fileContent, handlers, delivered, changes, truncations, tailerCall>>

\* a raised 'change' event is dispatched: handleFileChange runs up to its await of stat
handleFileChangeStart(h, filePath) ==
  /\ filePath \in watchers
  /\ changes > 0
  /\ changes' = changes - 1
  /\ handlers[h].pc = "idle"
  /\ Has(callbacks, filePath)
  /\ handlers' = [ handlers EXCEPT ![h] =
                     [ pc |-> "stat",
                       currentPosition |-> IF Has(filePositions, filePath) THEN filePositions[filePath] ELSE 0,
                       size |-> 0 ] ]
  /\ tailerCall' = [ op |-> "handleFileChange", h |-> h, after |-> tailerCall.op ]
  /\ UNCHANGED <<fileContent, watchers, filePositions, callbacks, delivered, truncations>>

\* stat resolves: truncation check, no-new-content check, buffer allocation
handleFileChangeStat(h, filePath) ==
  /\ handlers[h].pc = "stat"
  /\ LET size == Len(fileContent)
         currentPosition == handlers[h].currentPosition
     IN IF size < currentPosition
        THEN /\ filePositions' = MapSet(filePositions, filePath, 0)
             /\ handlers' = [ handlers EXCEPT ![h] = IdleHandler ]
             /\ tailerCall' = [ op |-> "truncated" ]
        ELSE IF size = currentPosition
        THEN /\ handlers' = [ handlers EXCEPT ![h] = IdleHandler ]
             /\ UNCHANGED <<filePositions, tailerCall>>
        ELSE /\ handlers' = [ handlers EXCEPT ![h] = [ @ EXCEPT !.pc = "read", !.size = size ] ]
             /\ UNCHANGED <<filePositions, tailerCall>>
  /\ UNCHANGED <<fileContent, watchers, callbacks, delivered, changes, truncations>>

\* open and read resolve: decode, invoke the callback, record the new position.
\* The read and the continuation after it are one step.
handleFileChangeRead(h, filePath) ==
  /\ handlers[h].pc = "read"
  /\ LET currentPosition == handlers[h].currentPosition
         newContent == ReadBuffer(handlers[h].size - currentPosition, currentPosition)
     IN /\ delivered' = IF TrimIsEmpty(newContent) THEN delivered
                        ELSE Append(delivered, [ offset |-> currentPosition, content |-> newContent ])
        /\ filePositions' = MapSet(filePositions, filePath, handlers[h].size)
  /\ handlers' = [ handlers EXCEPT ![h] = IdleHandler ]
  /\ UNCHANGED <<fileContent, watchers, callbacks, changes, truncations, tailerCall>>

\* FileWatcher.stopWatching(filePath) (op "stopWatching") and stopAll(), which
\* calls it for every watched path (op "stopAll"): the watcher is closed, the
\* offset and the callback are forgotten.  The handlers in flight keep the
\* callback and the offset they have read.
closeWatch(op, filePath) ==
  /\ filePath \in watchers
  /\ watchers' = watchers \ {filePath}
  /\ filePositions' = MapDelete(filePositions, filePath)
  /\ callbacks' = MapDelete(callbacks, filePath)
  /\ tailerCall' = [ op |-> op ]
  /\ UNCHANGED <<fileContent, handlers, delivered, changes, truncations>>

\* the process that owns the log appends a byte; a live watcher raises 'change'
AppendByte(b) ==
  /\ Len(fileContent) < MaxFileLen
  /\ fileContent' = Append(fileContent, b)
  /\ changes' = IF LogFile \in watchers THEN changes + 1 ELSE changes
  /\ UNCHANGED <<watchers, filePositions, callbacks, handlers, delivered, truncations, tailerCall>>

\* the log is truncated to its first k bytes; a live watcher raises 'change'
TruncateFile(k) ==
  /\ truncations < MaxTruncations
  /\ k < Len(fileContent)
  /\ fileContent' = SubSeq(fileContent, 1, k)
  /\ truncations' = truncations + 1
  /\ changes' = IF LogFile \in watchers THEN changes + 1 ELSE changes
  /\ UNCHANGED <<watchers, filePositions, callbacks, handlers, delivered, tailerCall>>

(***************************************************************************)
(* McpIntegrator                                                           *)
(***************************************************************************)
\* the integrator's clock runs over 0 .. MaxClock minutes
MaxClock == 5
\* where the listeners of the integrator act, its clock runs over
\* 0 .. MaxListenerClock minutes
MaxListenerClock == 1

\* cooldown of triggerSequentialAnalysis, in minutes (5 * 60 * 1000 ms)
sequentialDebounce == 5
\* cooldown of triggerDocumentationLookup, in minutes (10 * 60 * 1000 ms)
documentationDebounce == 10
\* window of isNewErrorPattern, in minutes (30 * 60 * 1000 ms)
newPatternDebounce == 30
\* length of the message prefix in the key of isNewErrorPattern
messagePrefixLen == 50

\* the configuration the constructor installs by default
config ==
  [ sequentialThinking |-> [ enabled |-> TRUE,
                             triggers |-> [ onError |-> TRUE, onMultipleErrors |-> 3,
                                            onProcessCrash |-> TRUE, onDependencyFailure |-> TRUE ] ],
    context7Docs |-> [ enabled |-> TRUE,
                       triggers |-> [ onFrameworkDetection |-> TRUE, onErrorPattern |-> TRUE,
                                      onNewDependency |-> FALSE ] ] ]

TargetPanes == { <<"p", "1">>, <<"p", "2">> }

\* the error events fed to handleError: one with a language, one without
ErrorEntries ==
  { [ paneId |-> p, type |-> <<"error">>, message |-> <<"b", "o", "o", "m">>, language |-> l ] :
      p \in TargetPanes, l \in { <<"js">>, None } }

\* the batches fed to handleMultipleErrors: below and at the threshold
ErrorBatches(p) ==
  LET e == [ paneId |-> p, type |-> <<"error">>, message |-> <<"b", "o", "o", "m">>, language |-> <<"js">> ]
  IN { <<e, e>>, <<e, e, e>> }

VARIABLES
  lastTriggers,     \* Map<key, Date>, in minutes
  activeAnalyses,   \* Set<key>
  clock,            \* Date.now() of the integrator, in minutes
  integratorCall,   \* the last handler call and the events it emitted
  categoryFired     \* history: <<analysis type, paneId>> -> time of the last emitted
                    \* trigger_sequential since the last clearHistory

triggerVars == <<lastTriggers, activeAnalyses, clock, integratorCall, categoryFired>>

TriggerInit ==
  /\ lastTriggers = EmptyMap
  /\ activeAnalyses = {}
  /\ clock = 0
  /\ integratorCall = [ op |-> "new", emitted |-> <<>> ]
  /\ categoryFired = EmptyMap

\* sequentialKey with the pane id left out of the key
sequentialKeyShared(paneId) == <<"sequential_">>

\* `sequential_${paneId}`
sequentialKey(paneId) == <<"sequential_">> \o paneId

\* `context7_${library}_${type}`
context7Key(library, type) == <<"context7_">> \o library \o <<"_">> \o type

\* message.slice(0, 50)
Slice(str, n) == SubSeq(str, 1, IF Len(str) < n THEN Len(str) ELSE n)

\* `error_${error.type}_${error.message.slice(0, 50)}`
errorPatternKey(error) == <<"error_">> \o error.type \o <<"_">> \o Slice(error.message, messagePrefixLen)

\* sequentialFires with the cooldown test written <= instead of <
sequentialFiresInclusive(lt, active, paneId) ==
  /\ sequentialKey(paneId) \notin active
  /\ ~(Has(lt, sequentialKey(paneId)) /\ clock - lt[sequentialKey(paneId)] <= sequentialDebounce)

\* triggerSequentialAnalysis(paneId, params) emits: not active and not in its cooldown
sequentialFires(lt, active, paneId) ==
  /\ sequentialKey(paneId) \notin active
  /\ ~(Has(lt, sequentialKey(paneId)) /\ clock - lt[sequentialKey(paneId)] < sequentialDebounce)

\* what a listener of 'trigger_sequential' does when the event is emitted:
\* it returns, it throws, or it calls handleProcessCrash for a pane before
\* it returns
ListenerReturns == [ does |-> "returns", paneId |-> None ]

Listeners ==
  { ListenerReturns, [ does |-> "throws", paneId |-> None ] }
    \cup { [ does |-> "reenters", paneId |-> q ] : q \in TargetPanes }

\* a variant of afterTry without the finally clause: the key is deleted at the
\* end of the try block
afterTryNoFinally(active, key, threw) == IF threw THEN active ELSE active \ {key}

\* finally { this.activeAnalyses.delete(key) }: the active analyses after the
\* try block, whether it threw or not
afterTry(active, key, threw) == active \ {key}

\* triggerSequentialAnalysis as called by handleProcessCrash from within a
\* listener; the listeners return when its own trigger is emitted
triggerSequentialAnalysisNested(lt, active, paneId, type) ==
  IF sequentialFires(lt, active, paneId)
  THEN [ lastTriggers |-> MapSet(lt, sequentialKey(paneId), clock),
         active |-> afterTry(active \cup {sequentialKey(paneId)}, sequentialKey(paneId), FALSE),
         emitted |-> << [ event |-> "trigger_sequential", paneId |-> paneId, type |-> type ] >> ]
  ELSE [ lastTriggers |-> lt, active |-> active, emitted |-> <<>> ]

\* this.emit('trigger_sequential', ...) while the key is active: the trigger
\* map, the active analyses and the events emitted when the listener is done;
\* a handleProcessCrash call of the listener runs up to its await, which is
\* past its own triggerSequentialAnalysis
emitTrigger(lt, active, listener) ==
  IF listener.does = "reenters"
  THEN LET event == << [ event |-> "mcp_event", paneId |-> listener.paneId, type |-> "process_crashed" ] >>
           seq == IF config.sequentialThinking.enabled /\ config.sequentialThinking.triggers.onProcessCrash
                  THEN triggerSequentialAnalysisNested(lt, active, listener.paneId, "crash_analysis")
                  ELSE [ lastTriggers |-> lt, active |-> active, emitted |-> <<>> ]
       IN  [ lastTriggers |-> seq.lastTriggers, active |-> seq.active, emitted |-> event \o seq.emitted ]
  ELSE [ lastTriggers |-> lt, active |-> active, emitted |-> <<>> ]

\* a variant of triggerSequentialAnalysis in which a debounced call restarts
\* the cooldown
triggerSequentialAnalysisExtends(lt, active, paneId, type, listener) ==
  IF sequentialFires(lt, active, paneId)
  THEN LET heard == emitTrigger(MapSet(lt, sequentialKey(paneId), clock),
                                active \cup {sequentialKey(paneId)}, listener)
       IN  [ lastTriggers |-> heard.lastTriggers,
             active |-> afterTry(heard.active, sequentialKey(paneId), listener.does = "throws"),
             emitted |-> << [ event |-> "trigger_sequential", paneId |-> paneId, type |-> type ] >>
                           \o heard.emitted ]
  ELSE [ lastTriggers |-> MapSet(lt, sequentialKey(paneId), clock), active |-> active, emitted |-> <<>> ]

\* triggerSequentialAnalysis(paneId, params): the trigger map, the active
\* analyses and the emitted events when it has returned
triggerSequentialAnalysis(lt, active, paneId, type, listener) ==
  IF sequentialFires(lt, active, paneId)
  THEN LET heard == emitTrigger(MapSet(lt, sequentialKey(paneId), clock),
                                active \cup {sequentialKey(paneId)}, listener)
       IN  [ lastTriggers |-> heard.lastTriggers,
             active |-> afterTry(heard.active, sequentialKey(paneId), listener.does = "throws"),
             emitted |-> << [ event |-> "trigger_sequential", paneId |-> paneId, type |-> type ] >>
                           \o heard.emitted ]
  ELSE [ lastTriggers |-> lt, active |-> active, emitted |-> <<>> ]

\* isNewErrorPattern(error): the verdict and the trigger map it leaves
isNewErrorPattern(lt, error) ==
  IF ~Has(lt, errorPatternKey(error)) \/ clock - lt[errorPatternKey(error)] > newPatternDebounce
  THEN [ isNew |-> TRUE, lastTriggers |-> MapSet(lt, errorPatternKey(error), clock) ]
  ELSE [ isNew |-> FALSE, lastTriggers |-> lt ]

\* triggerDocumentationLookup(library, query, type)
triggerDocumentationLookup(lt, library, type) ==
  IF Has(lt, context7Key(library, type)) /\ clock - lt[context7Key(library, type)] < documentationDebounce
  THEN [ lastTriggers |-> lt, emitted |-> <<>> ]
  ELSE [ lastTriggers |-> MapSet(lt, context7Key(library, type), clock),
         emitted |-> << [ event |-> "trigger_context7", paneId |-> library, type |-> type ] >> ]

\* the history of emitted analysis triggers, by category and target
RecordFired(emitted) ==
  [ k \in (DOMAIN categoryFired) \cup { <<emitted[i].type, emitted[i].paneId>> :
                                        i \in { j \in 1..Len(emitted) : emitted[j].event = "trigger_sequential" } }
      |-> IF \E i \in 1..Len(emitted) : emitted[i].event = "trigger_sequential"
                                          /\ k = <<emitted[i].type, emitted[i].paneId>>
          THEN clock ELSE categoryFired[k] ]

\* handleError(error)
handleError(error, listener) ==
  LET event == << [ event |-> "mcp_event", paneId |-> error.paneId, type |-> "error_detected" ] >>
      seq == IF config.sequentialThinking.enabled /\ config.sequentialThinking.triggers.onError
             THEN triggerSequentialAnalysis(lastTriggers, activeAnalyses, error.paneId, "error_analysis", listener)
             ELSE [ lastTriggers |-> lastTriggers, active |-> activeAnalyses, emitted |-> <<>> ]
      lookup == config.context7Docs.enabled /\ config.context7Docs.triggers.onErrorPattern
                  /\ error.language # None
      pattern == IF lookup THEN isNewErrorPattern(seq.lastTriggers, error)
                 ELSE [ isNew |-> FALSE, lastTriggers |-> seq.lastTriggers ]
      doc == IF pattern.isNew THEN triggerDocumentationLookup(pattern.lastTriggers, error.language, <<"error">>)
             ELSE [ lastTriggers |-> pattern.lastTriggers, emitted |-> <<>> ]
      emitted == event \o seq.emitted \o doc.emitted
  IN /\ lastTriggers' = doc.lastTriggers
     /\ activeAnalyses' = seq.active
     /\ integratorCall' = [ op |-> "handleError", paneId |-> error.paneId, language |-> error.language,
                            listener |-> listener.does, emitted |-> emitted ]
     /\ categoryFired' = RecordFired(emitted)
     /\ UNCHANGED clock

\* handleMultipleErrors(paneId, errors)
handleMultipleErrors(paneId, errors, listener) ==
  LET errorCount == Len(errors)
      seq == IF config.sequentialThinking.enabled
                  /\ errorCount >= config.sequentialThinking.triggers.onMultipleErrors
             THEN triggerSequentialAnalysis(lastTriggers, activeAnalyses, paneId, "multiple_errors_analysis", listener)
             ELSE [ lastTriggers |-> lastTriggers, active |-> activeAnalyses, emitted |-> <<>> ]
  IN /\ lastTriggers' = seq.lastTriggers
     /\ activeAnalyses' = seq.active
     /\ integratorCall' = [ op |-> "handleMultipleErrors", paneId |-> paneId, errorCount |-> errorCount,
                            listener |-> listener.does, emitted |-> seq.emitted ]
     /\ categoryFired' = RecordFired(seq.emitted)
     /\ UNCHANGED clock

\* handleProcessCrash(health)
handleProcessCrash(paneId, listener) ==
  LET event == << [ event |-> "mcp_event", paneId |-> paneId, type |-> "process_crashed" ] >>
      seq == IF config.sequentialThinking.enabled /\ config.sequentialThinking.triggers.onProcessCrash
             THEN triggerSequentialAnalysis(lastTriggers, activeAnalyses, paneId, "crash_analysis", listener)
             ELSE [ lastTriggers |-> lastTriggers, active |-> activeAnalyses, emitted |-> <<>> ]
  IN /\ lastTriggers' = seq.lastTriggers
     /\ activeAnalyses' = seq.active
     /\ integratorCall' = [ op |-> "handleProcessCrash", paneId |-> paneId, listener |-> listener.does,
                            emitted |-> event \o seq.emitted ]
     /\ categoryFired' = RecordFired(seq.emitted)
     /\ UNCHANGED clock

\* a variant of clearHistory that leaves the trigger times in place
clearHistoryKeepsTriggers ==
  /\ activeAnalyses' = {}
  /\ integratorCall' = [ op |-> "clearHistory", cleared |-> lastTriggers, emitted |-> <<>> ]
  /\ UNCHANGED <<lastTriggers, clock, categoryFired>>

\* clearHistory(); the call record keeps the trigger times it cleared
clearHistory ==
  /\ lastTriggers' = EmptyMap
  /\ activeAnalyses' = {}
  /\ integratorCall' = [ op |-> "clearHistory", cleared |-> lastTriggers, emitted |-> <<>> ]
  /\ categoryFired' = EmptyMap
  /\ UNCHANGED clock

(***************************************************************************)
(* ErrorWatcher: the per-pane error history                                *)
(* (src/src/core/index.ts, 294-325)                                        *)
(***************************************************************************)
\* at most MaxPushed entries are pushed to one pane's history array
MaxPushed == 102

\* "Keep only last 100 errors per pane"
historyCapacity == 100

VARIABLES
  errorCache,   \* Map<paneId, ErrorEntry[]>
  pushed        \* per pane: number of push() calls on its current history array

historyVars == <<errorCache, pushed>>

HistoryInit ==
  /\ errorCache = EmptyMap
  /\ pushed = [p \in TargetPanes |-> 0]

\* Array.prototype.splice(start, deleteCount): the array without the removed
\* elements (start is 0-based)
Splice(arr, start, deleteCount) ==
  SubSeq(arr, 1, start) \o SubSeq(arr, start + deleteCount + 1, Len(arr))

\* getErrors(paneId): this.errorCache.get(paneId) || []
getErrors(paneId) ==
  IF Has(errorCache, paneId) THEN errorCache[paneId] ELSE <<>>

\* a variant of addError that trims a full history at its newest end
addErrorKeepOldest(error) ==
  LET cache == IF Has(errorCache, error.paneId) THEN errorCache
               ELSE MapSet(errorCache, error.paneId, <<>>)
      errors == Append(cache[error.paneId], error)
      kept == IF Len(errors) > historyCapacity
              THEN Splice(errors, historyCapacity, Len(errors) - historyCapacity)
              ELSE errors
  IN  /\ errorCache' = MapSet(cache, error.paneId, kept)
      /\ pushed' = [pushed EXCEPT ![error.paneId] = @ + 1]

\* addError(error)
addError(error) ==
  LET cache == IF Has(errorCache, error.paneId) THEN errorCache
               ELSE MapSet(errorCache, error.paneId, <<>>)
      errors == Append(cache[error.paneId], error)
      kept == IF Len(errors) > historyCapacity
              THEN Splice(errors, 0, Len(errors) - historyCapacity)
              ELSE errors
  IN  /\ errorCache' = MapSet(cache, error.paneId, kept)
      /\ pushed' = [pushed EXCEPT ![error.paneId] = @ + 1]

\* clearErrors(paneId): one pane's history, or every history when paneId is
\* absent
clearErrors(paneId) ==
  IF paneId # None
  THEN /\ errorCache' = MapDelete(errorCache, paneId)
       /\ pushed' = [pushed EXCEPT ![paneId] = 0]
  ELSE /\ errorCache' = EmptyMap
       /\ pushed' = [p \in TargetPanes |-> 0]

(***************************************************************************)
(* CommandEscaper (src/src/utils/errors.ts, 481-792)                       *)
(***************************************************************************)
\* the commands handed to escapeForTmuxSendKeys have at most MaxCommandLen
\* characters
MaxCommandLen == 3

dangerousCommands ==
  { <<"r", "m">>, <<"r", "m", "d", "i", "r">>, <<"d", "d">>, <<"m", "k", "f", "s">>, <<"f", "d", "i", "s", "k">>, <<"s", "u", "d", "o">>, <<"s", "u">>, <<"c", "h", "m", "o", "d">>, <<"c", "h", "o", "w", "n">>,
    <<"k", "i", "l", "l">>, <<"k", "i", "l", "l", "a", "l", "l">>, <<"p", "k", "i", "l", "l">>, <<"h", "a", "l", "t">>, <<"r", "e", "b", "o", "o", "t">>, <<"s", "h", "u", "t", "d", "o", "w", "n">>, <<"f", "o", "r", "m", "a", "t">>,
    <<"d", "e", "l">>, <<"d", "e", "l", "t", "r", "e", "e">> }

\* the lower-case form of a character (the i flag of a RegExp)
ToLowerCase(c) ==
  LET UpperCase == <<"A", "B", "C", "D", "E", "F", "G", "H", "I", "J", "K", "L", "M", "N", "O", "P", "Q", "R", "S", "T", "U", "V", "W", "X", "Y", "Z">>
      LowerCase == <<"a", "b", "c", "d", "e", "f", "g", "h", "i", "j", "k", "l", "m", "n", "o", "p", "q", "r", "s", "t", "u", "v", "w", "x", "y", "z">>
  IN  IF \E i \in 1..26 : UpperCase[i] = c
      THEN LowerCase[CHOOSE i \in 1..26 : UpperCase[i] = c]
      ELSE c

\* the character U+0060 (grave accent), which a string literal of the module
\* cannot hold
Backtick == "U+0060"

\* the character class \s
IsSpace(c) == c \in {" ", "\t", "\n", "\r"}

\* the lower-case word w stands at position i of str, letter case ignored
WordAt(str, i, w) ==
  /\ i >= 1
  /\ i + Len(w) - 1 <= Len(str)
  /\ \A k \in 1..Len(w) : ToLowerCase(str[i + k - 1]) = w[k]

RECURSIVE Join(_, _)
\* args.join(sep)
Join(args, sep) ==
  IF Len(args) = 0 THEN <<>>
  ELSE IF Len(args) = 1 THEN args[1]
  ELSE args[1] \o sep \o Join(Tail(args), sep)

\* /<op>\s*(rm|del|format)/i
ChainsInto(str, op) ==
  \E i \in 1..Len(str) :
    /\ WordAt(str, i, op)
    /\ \E j \in (i + Len(op))..Len(str) :
         /\ \A k \in (i + Len(op))..(j - 1) : IsSpace(str[k])
         /\ \E verb \in { <<"r", "m">>, <<"d", "e", "l">>, <<"f", "o", "r", "m", "a", "t">> } : WordAt(str, j, verb)

\* /<open>[^<close>]*rm[^<close>]*<close>/i
SubstitutionWithRm(str, open, close) ==
  \E i \in 1..Len(str) :
    /\ WordAt(str, i, open)
    /\ \E j \in (i + Len(open))..Len(str) :
         /\ WordAt(str, j, <<"r", "m">>)
         /\ \A n \in (i + Len(open))..(j - 1) : str[n] # close
         /\ \E k \in (j + 2)..Len(str) :
              /\ str[k] = close
              /\ \A n \in (j + 2)..(k - 1) : str[n] # close

\* suspiciousPatterns[n - 1].test(allArgs)
suspiciousPatterns(n, allArgs) ==
  CASE n = 1 -> ChainsInto(allArgs, <<";">>)
    [] n = 2 -> ChainsInto(allArgs, <<"|">>)
    [] n = 3 -> ChainsInto(allArgs, <<"&", "&">>)
    [] n = 4 -> SubstitutionWithRm(allArgs, <<"$", "(">>, ")")
    [] n = 5 -> SubstitutionWithRm(allArgs, <<Backtick>>, Backtick)

\* a variant of the base name that takes the part before the first '/'
baseCommandFirst(command) ==
  LET parts == Split(command, "/")
  IN  IF parts[1] # <<>> THEN parts[1] ELSE command

\* command.split('/').pop() || command
baseCommand(command) ==
  LET parts == Split(command, "/")
  IN  IF parts[Len(parts)] # <<>> THEN parts[Len(parts)] ELSE command

\* what validateCommand does: return, or throw one of its two errors
Accepted == <<"o", "k">>

DangerousBlocked == <<"D", "a", "n", "g", "e", "r", "o", "u", "s", " ", "c", "o", "m", "m", "a", "n", "d", " ", "b", "l", "o", "c", "k", "e", "d">>

SuspiciousPattern == <<"S", "u", "s", "p", "i", "c", "i", "o", "u", "s", " ", "c", "o", "m", "m", "a", "n", "d", " ", "p", "a", "t", "t", "e", "r", "n", " ", "d", "e", "t", "e", "c", "t", "e", "d">>

VARIABLES
  escaperOptions,   \* this.options of the CommandEscaper the call is made on
  escaperCall,      \* the call made on it: method and arguments
  outcome,          \* what the call returned or threw
  launched,         \* the process started by the call through execFile or spawn
  result            \* the CommandResult or the list the call resolved with

escaperVars == <<escaperOptions, escaperCall, outcome, launched, result>>

\* no call was made yet
NoCall == [ op |-> "none" ]

\* no process was started
NoProcess == [ via |-> "none" ]

\* the call resolved with no value, or threw
NoResult == [ exitCode |-> -1 ]

\* new CommandEscaper(logger): allowDangerous defaults to false
EscaperInit ==
  /\ escaperOptions = [ allowDangerous |-> FALSE ]
  /\ escaperCall = NoCall
  /\ outcome = None
  /\ launched = NoProcess
  /\ result = NoResult

\* a variant of validateCommand in which the override skips every check
validateCommandOverrideSkipsAll(options, command, args) ==
  LET allArgs == Join(args, <<" ">>)
  IN  IF options.allowDangerous THEN Accepted
      ELSE IF baseCommand(command) \in dangerousCommands THEN DangerousBlocked
      ELSE IF \E n \in 1..5 : suspiciousPatterns(n, allArgs) THEN SuspiciousPattern
      ELSE Accepted

\* validateCommand(command, args) of an escaper with the given options
validateCommand(options, command, args) ==
  LET allArgs == Join(args, <<" ">>)
  IN  IF baseCommand(command) \in dangerousCommands /\ ~options.allowDangerous
      THEN DangerousBlocked
      ELSE IF \E n \in 1..5 : suspiciousPatterns(n, allArgs) THEN SuspiciousPattern
      ELSE Accepted

RECURSIVE ReplaceAll(_, _, _)
\* str.replace(/c/g, replacement) for a one-character pattern
ReplaceAll(str, c, replacement) ==
  IF Len(str) = 0 THEN <<>>
  ELSE (IF Head(str) = c THEN replacement ELSE <<Head(str)>>)
         \o ReplaceAll(Tail(str), c, replacement)

\* a variant of the escaper that escapes the backslashes last
escapeForTmuxSendKeysBackslashLast(command) ==
  LET s2 == ReplaceAll(command, "\"", <<"\\", "\"">>)
      s3 == ReplaceAll(s2, "'", <<"'", "\"", "'", "\"", "'">>)
      s4 == ReplaceAll(s3, "$", <<"\\", "$">>)
      s5 == ReplaceAll(s4, Backtick, <<"\\", Backtick>>)
      s6 == ReplaceAll(s5, ";", <<"\\", ";">>)
      s7 == ReplaceAll(s6, "|", <<"\\", "|">>)
      s8 == ReplaceAll(s7, "&", <<"\\", "&">>)
  IN  ReplaceAll(s8, "\\", <<"\\", "\\">>)

\* escapeForTmuxSendKeys(command)
escapeForTmuxSendKeys(command) ==
  LET s1 == ReplaceAll(command, "\\", <<"\\", "\\">>)
      s2 == ReplaceAll(s1, "\"", <<"\\", "\"">>)
      s3 == ReplaceAll(s2, "'", <<"'", "\"", "'", "\"", "'">>)
      s4 == ReplaceAll(s3, "$", <<"\\", "$">>)
      s5 == ReplaceAll(s4, Backtick, <<"\\", Backtick>>)
      s6 == ReplaceAll(s5, ";", <<"\\", ";">>)
      s7 == ReplaceAll(s6, "|", <<"\\", "|">>)
  IN  ReplaceAll(s7, "&", <<"\\", "&">>)

\* the body shared by executeCommand and spawnProcess: validation when
\* opts.validate is truthy, then the launch through execFile or spawn.  The
\* methods of the escaper are written as the value of a call: what it threw
\* (outcome), the process it started (launched) and what it returned
\* (result).
Launch(via, options, command, args, opts) ==
  LET verdict == IF opts.validate = "true" THEN validateCommand(options, command, args)
                 ELSE Accepted
  IN  [ outcome |-> verdict,
        launched |-> IF verdict = Accepted
                     THEN [ via |-> via, command |-> command, args |-> args ]
                     ELSE NoProcess,
        result |-> NoResult ]

\* the call ends with the given value
Returns(call) ==
  /\ outcome' = call.outcome
  /\ launched' = call.launched
  /\ result' = call.result

\* the ways the promise of execFileAsync settles.  It resolves when the child
\* exits with status 0.  It rejects with the error execFile builds: code is
\* the exit status of the child (written as its decimal string), the name of
\* the system error when the child could not be started, or null when the
\* child was ended by a signal; killed and signal tell that execFile ended
\* the child itself, which is what it does when the timeout passes.  The
\* error never has an exitCode property.  stdout is the list of the lines
\* the child wrote.
Settled(kind, rejected, code, killed, signal, stdout) ==
  [ kind |-> kind, rejected |-> rejected, code |-> code, exitCode |-> <<>>,
    killed |-> killed, signal |-> signal, stdout |-> stdout,
    stderr |-> <<>>, message |-> <<"Command failed">> ]

\* the try and the catch around execFileAsync in executeCommand: the result
\* returned for a settlement
execFileResult(settled) ==
  IF ~settled.rejected
  THEN [ stdout |-> settled.stdout, stderr |-> settled.stderr, exitCode |-> 0 ]
  ELSE [ stdout |-> settled.stdout,
         stderr |-> IF settled.stderr # <<>> THEN settled.stderr ELSE settled.message,
         exitCode |-> IF settled.code = "TIMEOUT" THEN 124
                      ELSE IF settled.exitCode \in { <<>>, <<0>> } THEN 1
                      ELSE settled.exitCode[1] ]

\* executeCommand(command, args, options)
executeCommand(options, command, args, opts, settled) ==
  LET started == Launch("execFile", options, command, args, opts)
  IN  IF started.outcome = Accepted
      THEN [ started EXCEPT !.result = execFileResult(settled) ]
      ELSE started

\* spawnProcess(command, args, options)
spawnProcess(options, command, args, opts) ==
  Launch("spawn", options, command, args, opts)

\* executeTmuxCommand(subcommand, args, options): { validate: true, ...options }
executeTmuxCommand(options, subcommand, args, opts, settled) ==
  executeCommand(options, <<"t", "m", "u", "x">>, <<subcommand>> \o args,
                 [ validate |-> IF opts.validate = "undefined" THEN "true" ELSE opts.validate ],
                 settled)

\* sendKeysToPane(paneId, command, options)
sendKeysToPane(options, paneId, command, opts, settled) ==
  executeTmuxCommand(options, <<"s", "e", "n", "d", "-", "k", "e", "y", "s">>,
                     << <<"-", "t">>, paneId, escapeForTmuxSendKeys(command), <<"E", "n", "t", "e", "r">> >>, opts,
                     settled)

\* isCommandSafe(command, args): the verdict of validateCommand, not thrown
isCommandSafe(options, command, args) ==
  [ outcome |-> validateCommand(options, command, args), launched |-> NoProcess,
    result |-> NoResult ]

(***************************************************************************)
(* Callers of the escaper: TmuxManager.initialize                          *)
(* (src/src/core/tmux-manager.ts, 47-68) and ProcessMonitor.listPorts      *)
(* (src/unnamed/part_003, 20-110)                                          *)
(***************************************************************************)
\* the error checkTmuxAvailable throws
TmuxNotAvailable == <<"t", "m", "u", "x", " ", "i", "s", " ", "n", "o", "t", " ", "a", "v", "a", "i", "l", "a", "b", "l", "e", ".", " ", "P", "l", "e", "a", "s", "e", " ", "i", "n", "s", "t", "a", "l", "l", " ", "t", "m", "u", "x", " ", "t", "o", " ", "u", "s", "e", " ", "t", "h", "i", "s", " ", "M", "C", "P", " ", "s", "e", "r", "v", "e", "r", ".">>

\* initialize(): mkdir of the log directory, then checkTmuxAvailable(), which
\* awaits executeTmuxCommand('-V') and throws TmuxNotAvailable when that call
\* throws; whatever is thrown is logged and thrown again.  mkdir is "ok" or
\* the name of the error it rejects with.
initialize(options, mkdir, settled) ==
  LET probe == executeTmuxCommand(options, <<"-", "V">>, <<>>, [ validate |-> "undefined" ], settled)
  IN  IF mkdir # "ok"
      THEN [ outcome |-> <<mkdir>>, launched |-> NoProcess, result |-> NoResult ]
      ELSE IF probe.outcome # Accepted
      THEN [ probe EXCEPT !.outcome = TmuxNotAvailable ]
      ELSE [ probe EXCEPT !.result = NoResult ]

\* the value of the capture group of /:(\d+)$/ in the address, NaN when the
\* address does not match
PortOf(address) ==
  IF \E i \in 1..(Len(address) - 1) :
       address[i] = ":" /\ \A j \in (i + 1)..Len(address) : IsDigit(address[j])
  THEN ParseInt(SubSeq(address,
                       1 + (CHOOSE i \in 1..(Len(address) - 1) :
                              address[i] = ":" /\ \A j \in (i + 1)..Len(address) : IsDigit(address[j])),
                       Len(address)))
  ELSE NaN

\* the list of the entries pushed for the lines at the positions the
\* entries are given for, in the order of the lines
Picked(entries) ==
  [ k \in 1..Cardinality(DOMAIN entries) |->
      entries[CHOOSE i \in DOMAIN entries : Cardinality({ j \in DOMAIN entries : j < i }) = k - 1] ]

\* listPortsWithNetstat(): the pipeline is handed to executeCommand as the
\* name of the program, without arguments and without options; of every line
\* that holds 'tcp' the first field with a ':' gives the port; an error gives
\* the empty list
listPortsWithNetstat(options, settled) ==
  LET call == executeCommand(options, <<"n", "e", "t", "s", "t", "a", "t", " ", "-", "t", "u", "l", "p", "n", " ", "2", ">", "/", "d", "e", "v", "/", "n", "u", "l", "l", " ", "|", " ", "g", "r", "e", "p", " ", "L", "I", "S", "T", "E", "N", " ", "|", "|", " ", "n", "e", "t", "s", "t", "a", "t", " ", "-", "a", "n", " ", "|", " ", "g", "r", "e", "p", " ", "L", "I", "S", "T", "E", "N">>,
                             <<>>, [ validate |-> "undefined" ], settled)
      lines == call.result.stdout
      HasTcp(i) == \E f \in 1..Len(lines[i]) : \E c \in 1..(Len(lines[i][f]) - 2) :
                     SubSeq(lines[i][f], c, c + 2) = <<"t", "c", "p">>
      WithColon(i) == { f \in 1..Len(lines[i]) : Includes(lines[i][f], ":") }
      AddressField(i) == lines[i][CHOOSE f \in WithColon(i) : \A g \in WithColon(i) : f <= g]
      Port(i) == IF HasTcp(i) /\ WithColon(i) # {} THEN PortOf(AddressField(i)) ELSE NaN
      Entry(i) == [ port |-> Port(i), protocol |-> "tcp", state |-> "listening", pid |-> 0 ]
  IN  IF call.outcome # Accepted
      THEN [ call EXCEPT !.outcome = Accepted, !.result = [ ports |-> <<>> ] ]
      ELSE [ call EXCEPT !.result =
               [ ports |-> Picked([ i \in { n \in 1..Len(lines) : Port(n) > 0 } |-> Entry(i) ]) ] ]

\* listPorts(): sh -c 'lsof -i -P -n | grep LISTEN' through executeCommand
\* without options; of every line with at least 9 fields whose 9th field ends
\* in ':' and digits one entry, the first of every port and protocol kept;
\* when the try block throws, listPortsWithNetstat()
listPorts(options, lsof, netstat) ==
  LET call == executeCommand(options, <<"s", "h">>, << <<"-", "c">>, <<"l", "s", "o", "f", " ", "-", "i", " ", "-", "P", " ", "-", "n", " ", "|", " ", "g", "r", "e", "p", " ", "L", "I", "S", "T", "E", "N">> >>,
                             [ validate |-> "undefined" ], lsof)
      lines == call.result.stdout
      Matches(i) == Len(lines[i]) >= 9 /\ PortOf(lines[i][9]) # NaN
      HasTCP(i) == \E f \in 1..Len(lines[i]) : \E c \in 1..(Len(lines[i][f]) - 2) :
                     SubSeq(lines[i][f], c, c + 2) = <<"T", "C", "P">>
      Entry(i) == [ port |-> PortOf(lines[i][9]),
                    protocol |-> IF HasTCP(i) THEN "tcp" ELSE "udp",
                    state |-> "listening", pid |-> ParseInt(lines[i][2]) ]
      Same(i, j) == Entry(i).port = Entry(j).port /\ Entry(i).protocol = Entry(j).protocol
      Unique == { i \in 1..Len(lines) :
                    Matches(i) /\ \A j \in 1..(i - 1) : Matches(j) => ~Same(i, j) }
  IN  IF call.outcome # Accepted
      THEN listPortsWithNetstat(options, netstat)
      ELSE [ call EXCEPT !.result = [ ports |-> Picked([ i \in Unique |-> Entry(i) ]) ] ]

(***************************************************************************)
(* CommandEscaper: inputs                                                  *)
(***************************************************************************)
\* the options an escaper is constructed with
EscaperOptions == { [ allowDangerous |-> a ] : a \in BOOLEAN }

\* the ways a child settles: status 0 with and without output (the lines lsof
\* prints for two listening sockets, each the list of its fields), a status
\* other than 0 (grep that finds nothing: 1; a child that itself exits with
\* 124), the timeout, and a program that does not exist
ExecFileSettlements ==
  LET LsofLines ==
        << << <<"n", "o", "d", "e">>, <<"1", "2">>, <<"u">>, <<"4", "u">>, <<"I", "P", "v", "4">>, <<"0", "x", "1">>, <<"0", "t", "0">>, <<"T", "C", "P">>, <<"*", ":", "8", "0">>, <<"(", "L", "I", "S", "T", "E", "N", ")">> >>,
           << <<"n", "o", "d", "e">>, <<"1", "2">>, <<"u">>, <<"5", "u">>, <<"I", "P", "v", "6">>, <<"0", "x", "2">>, <<"0", "t", "0">>, <<"T", "C", "P">>, <<"*", ":", "8", "0">>, <<"(", "L", "I", "S", "T", "E", "N", ")">> >> >>
  IN  { Settled("exit 0", FALSE, "0", FALSE, "null", <<>>),
        Settled("exit 0", FALSE, "0", FALSE, "null", LsofLines),
        Settled("exit 1", TRUE, "1", FALSE, "null", <<>>),
        Settled("exit 124", TRUE, "124", FALSE, "null", <<>>),
        Settled("timeout", TRUE, "null", TRUE, "SIGTERM", <<>>),
        Settled("not started", TRUE, "ENOENT", FALSE, "null", <<>>) }

\* options.validate of a call: absent, true or false
CallOptions == { [ validate |-> v ] : v \in {"undefined", "true", "false"} }

\* every denylisted name, bare and behind a directory, and names that are not
\* denylisted
Commands ==
  dangerousCommands
    \cup { <<"/", "b", "i", "n", "/">> \o c : c \in dangerousCommands }
    \cup { <<"n", "p", "m">>, <<"t", "m", "u", "x">>, <<"s", "h">>, <<"r", "m", "/">>, <<"r", "m", "/", "x">>, <<"/">>, <<"R", "m">> }

\* argument strings that chain into rm, del or format behind ';', '|' or
\* '&&', or that hold rm inside $( ) or inside backticks
InjectionStrings ==
  { <<"a">> \o op \o blank \o verb \o <<" ", "x">> :
      op \in { <<";">>, <<"|">>, <<"&", "&">> },
      blank \in { <<>>, <<" ">> },
      verb \in { <<"r", "m">>, <<"d", "e", "l">>, <<"f", "o", "r", "m", "a", "t">>, <<"R", "M">> } }
    \cup { <<"$", "(", "r", "m", " ", "x", ")">>, <<"a", " ", "$", "(", "b", ";", " ", "R", "m", ")">>, <<Backtick, "r", "m", " ", "x", Backtick>>, <<Backtick, "a", Backtick, "r", "m", Backtick, "b", Backtick>> }

ArgLists ==
  { <<s>> : s \in InjectionStrings }
    \cup { << <<"-", "c">>, s >> : s \in InjectionStrings }
    \cup { <<>>, << <<"-", "r", "f">>, <<"/">> >>, << <<"r", "u", "n">>, <<"d", "e", "v">> >>, << <<"1">> >>, << <<"-", "9">>, <<"1">> >>,
           << <<"a", ";">>, <<"r", "m">> >>, << <<"$", "(", "a", ")", "r", "m", ")">> >>, << <<"r", "m">>, <<"x">> >>, << <<"a", " ", "&", " ", "r", "m", " ", "x">> >>,
           << <<"a", " ", ";", " ", "b">> >>, << <<Backtick, "a", Backtick, " ", "r", "m">> >> }

RECURSIVE StringsUpTo(_)
\* the strings of at most n characters over the characters that
\* escapeForTmuxSendKeys rewrites and one that it leaves alone
StringsUpTo(n) ==
  IF n = 0 THEN { <<>> }
  ELSE StringsUpTo(n - 1)
         \cup { Append(s, c) : s \in { t \in StringsUpTo(n - 1) : Len(t) = n - 1 }, c \in { "\\", "\"", "'", "$", Backtick, ";", "|", "&", "a" } }

\* the commands typed into a pane
PaneCommands ==
  { <<"n", "p", "m", " ", "r", "u", "n", " ", "d", "e", "v">>, <<"r", "m", " ", "-", "r", "f", " ", "/">>, <<"a", ";", " ", "r", "m", " ", "x">>, <<"a", " ", "&", "&", " ", "r", "m", " ", "x">>, <<"e", "c", "h", "o", " ", "'", "h", "i", "'">>, <<"e", "c", "h", "o", " ", "\"", "$", "(", "r", "m", " ", "x", ")", "\"">>,
    <<"a", " ", "|", " ", "d", "e", "l", " ", "x">>, <<Backtick, "r", "m", " ", "x", Backtick>> }

(***************************************************************************)
(* Regular expressions of the pattern tables: a backtracking matcher       *)
(* (String.prototype.match with a RegExp that has no g flag)               *)
(***************************************************************************)
\* a literal text
Lit(w) == <<"lit", w>>

\* a character class repeated at least min times: greedy (*, +) or lazy (*?, +?);
\* the classes are "any" (.), "digit" (\d) and "space" (\s)
Rep(class, min, lazy) == <<"rep", class, min, lazy>>

\* a concatenation of nodes
Cat(nodes) == <<"seq", nodes>>

\* an alternation a|b|...
Alt(nodes) == <<"alt", nodes>>

\* the capture group number n
Grp(n, node) == <<"grp", n, node>>

\* the anchors ^ and $
Bol == <<"bol">>

Eol == <<"eol">>

\* a RegExp: its syntax tree and its flags i and s
RegExp(node, i, s) == [ node |-> node, i |-> i, s |-> s ]

\* the patterns of the tables have at most NumGroups capture groups
NumGroups == 5

\* character c belongs to the class
InClass(c, class, re) ==
  CASE class = "any" -> re.s \/ c \notin {"\n", "\r"}
    [] class = "digit" -> IsDigit(c)
    [] class = "space" -> IsSpace(c)

\* the literal w stands at position pos of str
LitAt(str, pos, w, re) ==
  /\ pos + Len(w) - 1 <= Len(str)
  /\ \A k \in 1..Len(w) :
       IF re.i THEN ToLowerCase(str[pos + k - 1]) = ToLowerCase(w[k])
       ELSE str[pos + k - 1] = w[k]

\* the number of characters of the class that stand at pos and after it
RunLength(str, pos, class, re) ==
  LET stop == { k \in pos..Len(str) : ~InClass(str[k], class, re) }
  IN  IF stop = {} THEN Len(str) - pos + 1
      ELSE (CHOOSE k \in stop : \A j \in stop : k <= j) - pos

RECURSIVE MatchNode(_, _, _, _, _)
RECURSIVE MatchSeq(_, _, _, _, _)
RECURSIVE MatchAlt(_, _, _, _, _)
RECURSIVE ContinueSeq(_, _, _, _)

\* the ways node matches str at pos, in the order in which backtracking
\* tries them: each is the position after the match and the captures
MatchNode(node, re, str, pos, caps) ==
  CASE node[1] = "lit" ->
         IF LitAt(str, pos, node[2], re)
         THEN << [ pos |-> pos + Len(node[2]), caps |-> caps ] >> ELSE <<>>
    [] node[1] = "rep" ->
         LET most == RunLength(str, pos, node[2], re)
             least == node[3]
         IN  IF most < least THEN <<>>
             ELSE [ k \in 1..(most - least + 1) |->
                      [ pos |-> pos + (IF node[4] THEN least + k - 1 ELSE most - k + 1),
                        caps |-> caps ] ]
    [] node[1] = "seq" -> MatchSeq(node[2], re, str, pos, caps)
    [] node[1] = "alt" -> MatchAlt(node[2], re, str, pos, caps)
    [] node[1] = "grp" ->
         LET inner == MatchNode(node[3], re, str, pos, caps)
         IN  [ k \in DOMAIN inner |->
                 [ pos |-> inner[k].pos,
                   caps |-> [ inner[k].caps EXCEPT ![node[2]] = <<pos, inner[k].pos>> ] ] ]
    [] node[1] = "bol" -> IF pos = 1 THEN << [ pos |-> pos, caps |-> caps ] >> ELSE <<>>
    [] node[1] = "eol" ->
         IF pos = Len(str) + 1 THEN << [ pos |-> pos, caps |-> caps ] >> ELSE <<>>

MatchSeq(nodes, re, str, pos, caps) ==
  IF Len(nodes) = 0 THEN << [ pos |-> pos, caps |-> caps ] >>
  ELSE ContinueSeq(MatchNode(Head(nodes), re, str, pos, caps), Tail(nodes), re, str)

ContinueSeq(ways, nodes, re, str) ==
  IF Len(ways) = 0 THEN <<>>
  ELSE MatchSeq(nodes, re, str, Head(ways).pos, Head(ways).caps)
         \o ContinueSeq(Tail(ways), nodes, re, str)

MatchAlt(nodes, re, str, pos, caps) ==
  IF Len(nodes) = 0 THEN <<>>
  ELSE MatchNode(Head(nodes), re, str, pos, caps) \o MatchAlt(Tail(nodes), re, str, pos, caps)

\* str.match(re): the leftmost match, [ index |-> 0 ] when there is none
StrMatch(str, re) ==
  LET starts == { s \in 1..(Len(str) + 1) : Len(MatchNode(re.node, re, str, s, ([ n \in 1..NumGroups |-> <<0, 0>> ]))) > 0 }
  IN  IF starts = {} THEN [ index |-> 0 ]
      ELSE LET s == CHOOSE x \in starts : \A y \in starts : x <= y
               way == Head(MatchNode(re.node, re, str, s, ([ n \in 1..NumGroups |-> <<0, 0>> ])))
           IN  [ index |-> s, last |-> way.pos - 1, caps |-> way.caps ]

\* match[n]: the whole match for n = 0, the text of group n otherwise, None
\* (undefined) for a group that took no part in the match
MatchGroup(str, match, n) ==
  IF n = 0 THEN SubSeq(str, match.index, match.last)
  ELSE IF n > NumGroups \/ match.caps[n] = <<0, 0>> THEN None
  ELSE SubSeq(str, match.caps[n][1], match.caps[n][2] - 1)

(***************************************************************************)
(* Pattern tables of LogAnalyzer (src/unnamed/part_001, 18-112) and of     *)
(* ErrorWatcher (src/src/core/index.ts, 54-102)                            *)
(***************************************************************************)
\* at most MaxPatternChanges calls of addCustomPattern and removePattern
\* precede a classification
MaxPatternChanges == 1

\* at most MaxListEdits calls of addCustomPattern and removePattern are made
\* where the lists themselves are examined
MaxListEdits == 3

\* a pattern without language, and the language of an untagged call
NoLanguage == "undefined"

\* an ErrorPattern; a capture group index of 0 stands for a role that
\* captureGroups does not hold (file, line, column) or for match[0] (message)
Pattern(name, regex, type, language, file, line, column, message) ==
  [ name |-> name, regex |-> regex, type |-> type, language |-> language,
    captureGroups |-> [ file |-> file, line |-> line, column |-> column, message |-> message ] ]

\* (\d+)
Number(n) == Grp(n, Rep("digit", 1, FALSE))

\* the regular expressions of the pattern tables, by the name of the LogAnalyzer
\* (or, for eslint_watch, ErrorWatcher) pattern that holds them
Regexes ==
  [
    \* /^(.+?)\((\d+),(\d+)\):\s*(error|warning)\s*TS\d+:\s*(.+)$/i
    typescript |->
      RegExp(Cat(<< Bol, Grp(1, Rep("any", 1, TRUE)), Lit(<<"(">>), Number(2), Lit(<<",">>), Number(3),
                    Lit(<<")", ":">>), Rep("space", 0, FALSE),
                    Grp(4, Alt(<< Lit(<<"e", "r", "r", "o", "r">>), Lit(<<"w", "a", "r", "n", "i", "n", "g">>) >>)), Rep("space", 0, FALSE),
                    Lit(<<"T", "S">>), Rep("digit", 1, FALSE), Lit(<<":">>), Rep("space", 0, FALSE),
                    Grp(5, Rep("any", 1, FALSE)), Eol >>), TRUE, FALSE),
    \* /^(.+?):(\d+):(\d+):\s*(Error|SyntaxError|TypeError|ReferenceError):\s*(.+)$/i
    javascript |->
      RegExp(Cat(<< Bol, Grp(1, Rep("any", 1, TRUE)), Lit(<<":">>), Number(2), Lit(<<":">>), Number(3),
                    Lit(<<":">>), Rep("space", 0, FALSE),
                    Grp(4, Alt(<< Lit(<<"E", "r", "r", "o", "r">>), Lit(<<"S", "y", "n", "t", "a", "x", "E", "r", "r", "o", "r">>), Lit(<<"T", "y", "p", "e", "E", "r", "r", "o", "r">>),
                                  Lit(<<"R", "e", "f", "e", "r", "e", "n", "c", "e", "E", "r", "r", "o", "r">>) >>)),
                    Lit(<<":">>), Rep("space", 0, FALSE), Grp(5, Rep("any", 1, FALSE)), Eol >>),
             TRUE, FALSE),
    \* /File "(.+?)", line (\d+).*?\n(.+?Error): (.+)/s
    python |->
      RegExp(Cat(<< Lit(<<"F", "i", "l", "e", " ", "\"">>), Grp(1, Rep("any", 1, TRUE)), Lit(<<"\"", ",", " ", "l", "i", "n", "e", " ">>), Number(2),
                    Rep("any", 0, TRUE), Lit(<<"\n">>),
                    Grp(3, Cat(<< Rep("any", 1, TRUE), Lit(<<"E", "r", "r", "o", "r">>) >>)), Lit(<<":", " ">>),
                    Grp(4, Rep("any", 1, FALSE)) >>), FALSE, TRUE),
    \* /^error.*?:\s*(.+)\n.*?--> (.+?):(\d+):(\d+)/s
    rust |->
      RegExp(Cat(<< Bol, Lit(<<"e", "r", "r", "o", "r">>), Rep("any", 0, TRUE), Lit(<<":">>), Rep("space", 0, FALSE),
                    Grp(1, Rep("any", 1, FALSE)), Lit(<<"\n">>), Rep("any", 0, TRUE), Lit(<<"-", "-", ">", " ">>),
                    Grp(2, Rep("any", 1, TRUE)), Lit(<<":">>), Number(3), Lit(<<":">>), Number(4) >>),
             FALSE, TRUE),
    \* /^(.+?):(\d+):(\d+):\s*(.+)$/
    go |->
      RegExp(Cat(<< Bol, Grp(1, Rep("any", 1, TRUE)), Lit(<<":">>), Number(2), Lit(<<":">>), Number(3),
                    Lit(<<":">>), Rep("space", 0, FALSE), Grp(4, Rep("any", 1, FALSE)), Eol >>),
             FALSE, FALSE),
    \* /(ERROR|FAIL|Exception|Error:|Failed)/i
    general_error |->
      RegExp(Grp(1, Alt(<< Lit(<<"E", "R", "R", "O", "R">>), Lit(<<"F", "A", "I", "L">>), Lit(<<"E", "x", "c", "e", "p", "t", "i", "o", "n">>), Lit(<<"E", "r", "r", "o", "r", ":">>),
                           Lit(<<"F", "a", "i", "l", "e", "d">>) >>)), TRUE, FALSE),
    \* /(WARN|Warning|Deprecated|Notice)/i
    general_warning |->
      RegExp(Grp(1, Alt(<< Lit(<<"W", "A", "R", "N">>), Lit(<<"W", "a", "r", "n", "i", "n", "g">>), Lit(<<"D", "e", "p", "r", "e", "c", "a", "t", "e", "d">>), Lit(<<"N", "o", "t", "i", "c", "e">>) >>)),
             TRUE, FALSE),
    \* /npm ERR!\s*(.+)/i
    npm_error |->
      RegExp(Cat(<< Lit(<<"n", "p", "m", " ", "E", "R", "R", "!">>), Rep("space", 0, FALSE), Grp(1, Rep("any", 1, FALSE)) >>),
             TRUE, FALSE),
    \* /docker: Error response from daemon: (.+)/i
    docker_error |->
      RegExp(Cat(<< Lit(<<"d", "o", "c", "k", "e", "r", ":", " ", "E", "r", "r", "o", "r", " ", "r", "e", "s", "p", "o", "n", "s", "e", " ", "f", "r", "o", "m", " ", "d", "a", "e", "m", "o", "n", ":", " ">>), Grp(1, Rep("any", 1, FALSE)) >>),
             TRUE, FALSE),
    \* /^\s*(\d+):(\d+)\s+(error|warning)\s+(.+?)\s+(.+)$/
    eslint_watch |->
      RegExp(Cat(<< Bol, Rep("space", 0, FALSE), Number(1), Lit(<<":">>), Number(2), Rep("space", 1, FALSE),
                    Grp(3, Alt(<< Lit(<<"e", "r", "r", "o", "r">>), Lit(<<"w", "a", "r", "n", "i", "n", "g">>) >>)), Rep("space", 1, FALSE),
                    Grp(4, Rep("any", 1, TRUE)), Rep("space", 1, FALSE), Grp(5, Rep("any", 1, FALSE)),
                    Eol >>), FALSE, FALSE)
  ]

\* the pattern objects; the pattern lists hold references to them
PatternObjects ==
  [ ref \in { "analyzer.typescript", "analyzer.javascript", "analyzer.python", "analyzer.rust",
              "analyzer.go", "analyzer.general_error", "analyzer.general_warning",
              "analyzer.npm_error", "analyzer.docker_error", "watcher.typescript_watch",
              "watcher.rust_watch", "watcher.go_watch", "watcher.eslint_watch",
              "custom.custom-error", "custom.temp-pattern", "custom.at-line",
              "custom.general_error" } |->
      CASE ref = "analyzer.typescript" ->
             Pattern("typescript", Regexes.typescript, "error", "typescript", 1, 2, 3, 5)
        [] ref = "analyzer.javascript" ->
             Pattern("javascript", Regexes.javascript, "error", "javascript", 1, 2, 3, 5)
        [] ref = "analyzer.python" -> Pattern("python", Regexes.python, "error", "python", 1, 2, 0, 4)
        [] ref = "analyzer.rust" -> Pattern("rust", Regexes.rust, "error", "rust", 2, 3, 4, 1)
        [] ref = "analyzer.go" -> Pattern("go", Regexes.go, "error", "go", 1, 2, 3, 4)
        [] ref = "analyzer.general_error" ->
             Pattern("general_error", Regexes.general_error, "error", NoLanguage, 0, 0, 0, 0)
        [] ref = "analyzer.general_warning" ->
             Pattern("general_warning", Regexes.general_warning, "warning", NoLanguage, 0, 0, 0, 0)
        [] ref = "analyzer.npm_error" -> Pattern("npm_error", Regexes.npm_error, "error", "npm", 0, 0, 0, 1)
        [] ref = "analyzer.docker_error" ->
             Pattern("docker_error", Regexes.docker_error, "error", "docker", 0, 0, 0, 1)
        [] ref = "watcher.typescript_watch" ->
             Pattern("typescript_watch", [Regexes.typescript EXCEPT !.i = FALSE], "error", "typescript", 1, 2, 3, 5)
        [] ref = "watcher.rust_watch" -> Pattern("rust_watch", Regexes.rust, "error", "rust", 2, 3, 4, 1)
        [] ref = "watcher.go_watch" -> Pattern("go_watch", Regexes.go, "error", "go", 1, 2, 3, 4)
        [] ref = "watcher.eslint_watch" ->
             Pattern("eslint_watch", Regexes.eslint_watch, "error", "javascript", 1, 2, 0, 4)
        [] ref = "custom.custom-error" ->
             Pattern("custom-error",
                     RegExp(Cat(<< Lit(<<"C", "U", "S", "T", "O", "M", "_", "E", "R", "R", "O", "R", ":">>), Rep("space", 0, FALSE),
                                   Grp(1, Rep("any", 1, FALSE)) >>), FALSE, FALSE),
                     "error", NoLanguage, 0, 0, 0, 1)
        [] ref = "custom.temp-pattern" ->
             Pattern("temp-pattern",
                     RegExp(Cat(<< Lit(<<"T", "E", "M", "P", ":">>), Rep("space", 0, FALSE),
                                   Grp(1, Rep("any", 1, FALSE)) >>), FALSE, FALSE),
                     "warning", NoLanguage, 0, 0, 0, 1)
        [] ref = "custom.at-line" ->
             Pattern("at-line",
                     RegExp(Cat(<< Lit(<<"A", "T", " ">>), Grp(1, Rep("any", 1, TRUE)), Lit(<<":", " ">>),
                                   Grp(2, Rep("any", 1, FALSE)) >>), FALSE, FALSE),
                     "error", NoLanguage, 0, 1, 0, 2)
        \* a pattern of the caller's under a name that a built-in pattern has
        [] ref = "custom.general_error" ->
             Pattern("general_error",
                     RegExp(Cat(<< Lit(<<"F", "A", "T", "A", "L", ":">>), Rep("space", 0, FALSE),
                                   Grp(1, Rep("any", 1, FALSE)) >>), FALSE, FALSE),
                     "error", NoLanguage, 0, 0, 0, 1) ]

\* the errorPatterns a LogAnalyzer is constructed with
LogAnalyzerPatterns ==
  << "analyzer.typescript", "analyzer.javascript", "analyzer.python", "analyzer.rust",
     "analyzer.go", "analyzer.general_error", "analyzer.general_warning", "analyzer.npm_error",
     "analyzer.docker_error" >>

\* the errorPatterns an ErrorWatcher is constructed with
ErrorWatcherPatterns ==
  << "watcher.typescript_watch", "watcher.rust_watch", "watcher.go_watch",
     "watcher.eslint_watch" >>

(***************************************************************************)
(* Classification: matchErrorPatterns of LogAnalyzer                       *)
(* (src/unnamed/part_001, 241-262) and of ErrorWatcher                     *)
(* (src/src/core/index.ts, 266-292)                                        *)
(***************************************************************************)
VARIABLES
  analyzerPatterns,   \* LogAnalyzer.errorPatterns: references to pattern objects
  watcherPatterns,    \* ErrorWatcher.errorPatterns: references to pattern objects
  patternChanges,     \* number of addCustomPattern and removePattern calls made
  classifierCall,     \* the matchErrorPatterns call made: classifier, line, language
  classified          \* the ErrorEntry it returned, or Null

classifierVars == <<analyzerPatterns, watcherPatterns, patternChanges, classifierCall, classified>>

\* matchErrorPatterns returned null
Null == [ type |-> "null" ]

\* matchErrorPatterns was not called yet
NoClassification == [ op |-> "none" ]

ClassifierInit ==
  /\ analyzerPatterns = LogAnalyzerPatterns
  /\ watcherPatterns = ErrorWatcherPatterns
  /\ patternChanges = 0
  /\ classifierCall = NoClassification
  /\ classified = Null

\* a role read from a capture group: a group index of 0 (or none) is falsy
\* and gives undefined
Role(line, match, group) ==
  IF group # 0 THEN MatchGroup(line, match, group) ELSE None

\* a variant of the entry whose column is read from the line group
buildEntryColumnFromLine(pattern, match, line, language) ==
  LET groups == pattern.captureGroups
      message == MatchGroup(line, match, groups.message)
  IN  [ file |-> Role(line, match, groups.file),
        line |-> IF groups.line # 0 THEN <<ParseInt(MatchGroup(line, match, groups.line))>> ELSE <<>>,
        column |-> IF groups.column # 0 THEN <<ParseInt(MatchGroup(line, match, groups.line))>>
                   ELSE <<>>,
        message |-> IF message # None /\ message # <<>> THEN message ELSE line,
        type |-> pattern.type,
        language |-> IF pattern.language # NoLanguage THEN pattern.language ELSE language ]

\* the ErrorEntry built from a match (id, paneId and timestamp left out);
\* line and column are <<n>> when the role is configured and <<>> otherwise
buildEntry(pattern, match, line, language) ==
  LET groups == pattern.captureGroups
      message == MatchGroup(line, match, groups.message)
  IN  [ file |-> Role(line, match, groups.file),
        line |-> IF groups.line # 0 THEN <<ParseInt(MatchGroup(line, match, groups.line))>> ELSE <<>>,
        column |-> IF groups.column # 0 THEN <<ParseInt(MatchGroup(line, match, groups.column))>>
                   ELSE <<>>,
        message |-> IF message # None /\ message # <<>> THEN message ELSE line,
        type |-> pattern.type,
        language |-> IF pattern.language # NoLanguage THEN pattern.language ELSE language ]

RECURSIVE analyzerMatchErrorPatterns(_, _)
\* LogAnalyzer.matchErrorPatterns(line, filePath, lineNumber) over the
\* patterns that are left to try
analyzerMatchErrorPatterns(patterns, line) ==
  IF Len(patterns) = 0 THEN Null
  ELSE LET pattern == PatternObjects[Head(patterns)]
           match == StrMatch(line, pattern.regex)
       IN  IF match.index # 0 THEN buildEntry(pattern, match, line, NoLanguage)
           ELSE analyzerMatchErrorPatterns(Tail(patterns), line)

\* a variant of the language filter that skips no pattern
skipsPatternNever(pattern, language) == FALSE

\* "Filter by language if specified": the pattern is passed over
skipsPattern(pattern, language) ==
  /\ language # NoLanguage
  /\ pattern.language # NoLanguage
  /\ pattern.language # language

RECURSIVE watcherMatchErrorPatterns(_, _, _)
\* ErrorWatcher.matchErrorPatterns(line, paneId, language) over the patterns
\* that are left to try
watcherMatchErrorPatterns(patterns, line, language) ==
  IF Len(patterns) = 0 THEN Null
  ELSE LET pattern == PatternObjects[Head(patterns)]
       IN  IF skipsPattern(pattern, language)
           THEN watcherMatchErrorPatterns(Tail(patterns), line, language)
           ELSE LET match == StrMatch(line, pattern.regex)
                IN  IF match.index # 0 THEN buildEntry(pattern, match, line, language)
                    ELSE watcherMatchErrorPatterns(Tail(patterns), line, language)

\* addCustomPattern(pattern): this.errorPatterns.push(pattern)
addCustomPattern(patterns, pattern) == Append(patterns, pattern)

\* removePattern(name): splice at findIndex(p => p.name === name)
removePattern(patterns, name) ==
  LET found == { n \in 1..Len(patterns) : PatternObjects[patterns[n]].name = name }
  IN  IF found = {} THEN patterns
      ELSE LET index == CHOOSE n \in found : \A m \in found : n <= m
           IN  SubSeq(patterns, 1, index - 1) \o SubSeq(patterns, index + 1, Len(patterns))

(***************************************************************************)
(* Classification: inputs                                                  *)
(***************************************************************************)
\* a line of the TypeScript compiler
TsLine(file, line, column, severity, message) ==
  file \o <<"(">> \o line \o <<",">> \o column \o <<")", ":", " ">> \o severity \o <<" ", "T", "S", "2", "3", "3", "9", ":", " ">> \o message

\* the parts the compiler lines are built from; numbers come with their value
TsFiles == { <<"s", "r", "c", "/", "i", "n", "d", "e", "x", ".", "t", "s">>, <<"a", "(", "1", ")", ".", "t", "s">> }

TsPositions == { << <<"4", "2">>, 42, <<"1", "0">>, 10 >>, << <<"7">>, 7, <<"3">>, 3 >> }

TsMessages == { <<"P", "r", "o", "p", "e", "r", "t", "y", " ", "'", "f", "o", "o", "'", " ", "d", "o", "e", "s", " ", "n", "o", "t", " ", "e", "x", "i", "s", "t", " ", "o", "n", " ", "t", "y", "p", "e", " ", "'", "s", "t", "r", "i", "n", "g", "'", ".">>, <<"x">> }

\* the lines handed to matchErrorPatterns
LogLines ==
  { TsLine(f, p[1], p[3], <<"e", "r", "r", "o", "r">>, m) : f \in TsFiles, p \in TsPositions, m \in TsMessages }
    \cup { <<"E", "R", "R", "O", "R", ":", " ", "S", "o", "m", "e", "t", "h", "i", "n", "g", " ", "w", "e", "n", "t", " ", "w", "r", "o", "n", "g", "!">>,
           <<"W", "A", "R", "N", "I", "N", "G", ":", " ", "T", "h", "i", "s", " ", "i", "s", " ", "d", "e", "p", "r", "e", "c", "a", "t", "e", "d">>,
           <<"T", "h", "i", "s", " ", "i", "s", " ", "j", "u", "s", "t", " ", "a", " ", "n", "o", "r", "m", "a", "l", " ", "l", "o", "g", " ", "l", "i", "n", "e">>,
           <<"s", "r", "c", "/", "a", ".", "t", "s", "(", "1", ",", "2", ")", ":", " ", "w", "a", "r", "n", "i", "n", "g", " ", "T", "S", "6", "1", "3", "3", ":", " ", "x", " ", "i", "s", " ", "u", "n", "u", "s", "e", "d">>,
           <<"m", "a", "i", "n", ".", "g", "o", ":", "3", ":", "5", ":", " ", "u", "n", "d", "e", "f", "i", "n", "e", "d", ":", " ", "x">>,
           <<"m", "a", "i", "n", ".", "g", "o", ":", "3", ":", "5", ":", " ", "w", "a", "r", "n", "i", "n", "g", ":", " ", "o", "l", "d", " ", "c", "a", "l", "l">>,
           <<"a", ".", "g", "o", ":", "1", ":", "2", ":", " ", "C", "U", "S", "T", "O", "M", "_", "E", "R", "R", "O", "R", ":", " ", "x">>,
           <<"a", "p", "p", ".", "j", "s", ":", "1", "0", ":", "5", ":", " ", "T", "y", "p", "e", "E", "r", "r", "o", "r", ":", " ", "x", " ", "i", "s", " ", "n", "o", "t", " ", "a", " ", "f", "u", "n", "c", "t", "i", "o", "n">>,
           <<"n", "p", "m", " ", "E", "R", "R", "!", " ", "c", "o", "d", "e", " ", "E", "4", "0", "4">>,
           <<"B", "u", "i", "l", "d", " ", "F", "A", "I", "L", "E", "D", " ", "w", "i", "t", "h", " ", "E", "x", "c", "e", "p", "t", "i", "o", "n">>,
           <<"D", "e", "p", "r", "e", "c", "a", "t", "i", "o", "n", "W", "a", "r", "n", "i", "n", "g", ":", " ", "B", "u", "f", "f", "e", "r", "(", ")">>,
           <<" ", " ", "1", "2", ":", "5", " ", " ", "e", "r", "r", "o", "r", " ", " ", "U", "n", "e", "x", "p", "e", "c", "t", "e", "d", " ", "v", "a", "r", " ", " ", "n", "o", "-", "v", "a", "r">>,
           <<"d", "o", "c", "k", "e", "r", ":", " ", "E", "r", "r", "o", "r", " ", "r", "e", "s", "p", "o", "n", "s", "e", " ", "f", "r", "o", "m", " ", "d", "a", "e", "m", "o", "n", ":", " ", "n", "o", " ", "i", "m", "a", "g", "e">>,
           <<"C", "U", "S", "T", "O", "M", "_", "E", "R", "R", "O", "R", ":", " ", "b", "o", "o", "m">>,
           <<"T", "E", "M", "P", ":", " ", "f", "i", "l", "e">>,
           <<"A", "T", " ", "1", "2", ":", " ", "x">>,
           <<"A", "T", " ", "L", "7", ":", " ", "x">>,
           <<"F", "i", "l", "e", " ", "\"", "a", ".", "p", "y", "\"", ",", " ", "l", "i", "n", "e", " ", "3", ",", " ", "i", "n", " ", "f">> \o <<"\n">> \o <<"V", "a", "l", "u", "e", "E", "r", "r", "o", "r", ":", " ", "b", "a", "d">>,
           <<"e", "r", "r", "o", "r", "[", "E", "0", "4", "2", "5", "]", ":", " ", "n", "o", " ", "x">> \o <<"\n">> \o <<" ", " ", "-", "-", ">", " ", "s", "r", "c", "/", "m", "a", "i", "n", ".", "r", "s", ":", "2", ":", "5">>,
           <<>> }

(***************************************************************************)
(* ErrorWatcher: watching of panes (src/src/core/index.ts, 116-264)        *)
(***************************************************************************)
\* at most MaxEmitted events are emitted
MaxEmitted == 2
\* at most MaxProcesses build processes are spawned
MaxProcesses == 2

VARIABLES
  watchedPanes,    \* ErrorWatcher.watchedPanes
  tailedPanes,     \* the panes whose log file the FileWatcher watches, with
                   \* the callback that hands its content to processLogContent
  buildWatchers,   \* ErrorWatcher.buildWatchers: pane id -> child process
  buildProcesses,  \* the child processes spawned so far, with their state
  emitted,         \* the 'error' and 'warning' events emitted so far
  watcherCall      \* the last call of startWatching or stopWatching

lifecycleVars == <<watchedPanes, tailedPanes, buildWatchers, buildProcesses, emitted, watcherCall>>

LifecycleInit ==
  /\ watchedPanes = {}
  /\ tailedPanes = {}
  /\ buildWatchers = EmptyMap
  /\ buildProcesses = <<>>
  /\ emitted = <<>>
  /\ watcherCall = [ op |-> "none" ]

\* the panes handed to startWatching, each with a log file: one runs the
\* TypeScript compiler, the other a shell
Panes ==
  { [ id |-> <<"p", "1">>, command |-> <<"t", "s", "c", " ", "-", "-", "w", "a", "t", "c", "h">> ],
    [ id |-> <<"p", "2">>, command |-> <<"b", "a", "s", "h">> ] }

\* the lines of a log file or of a build process: one that typescript_watch
\* matches and one that no pattern matches
OutputLines == { <<"a", ".", "t", "s", "(", "1", ",", "2", ")", ":", " ", "e", "r", "r", "o", "r", " ", "T", "S", "1", ":", " ", "x">>, <<"o", "k">> }

\* detectLanguage(command)
detectLanguage(command) ==
  LET includes(w) == \E i \in 1..Len(command) : WordAt(command, i, w)
  IN  IF includes(<<"t", "s", "c">>) \/ includes(<<"t", "y", "p", "e", "s", "c", "r", "i", "p", "t">>) THEN "typescript"
      ELSE IF includes(<<"c", "a", "r", "g", "o">>) \/ includes(<<"r", "u", "s", "t">>) THEN "rust"
      ELSE IF includes(<<"g", "o", " ">>) \/ includes(<<"g", "o", "l", "a", "n", "g">>) THEN "go"
      ELSE IF includes(<<"p", "y", "t", "h", "o", "n">>) \/ includes(<<"p", "y">>) THEN "python"
      ELSE IF includes(<<"j", "a", "v", "a">>) \/ includes(<<"j", "a", "v", "a", "c">>) THEN "java"
      ELSE IF includes(<<"n", "o", "d", "e">>) \/ includes(<<"n", "p", "m">>) \/ includes(<<"y", "a", "r", "n">>) THEN "javascript"
      ELSE NoLanguage

\* a variant of startBuildWatcher that lets a throwing spawn reach its caller
startBuildWatcherRethrows(pane, spawned) ==
  LET language == detectLanguage(pane.command)
  IN  IF language = NoLanguage \/ spawned = "throws"
      THEN [ threw |-> spawned = "throws" /\ language # NoLanguage,
             buildWatchers |-> buildWatchers, buildProcesses |-> buildProcesses ]
      ELSE [ threw |-> FALSE,
             buildWatchers |-> MapSet(buildWatchers, pane.id, Len(buildProcesses) + 1),
             buildProcesses |-> Append(buildProcesses,
                                  [ paneId |-> pane.id, language |-> language, state |-> spawned ]) ]

\* startBuildWatcher(pane): every language detectLanguage returns has a build
\* command; spawned is what spawn does: it throws, or it returns a process
\* that runs ("running") or one that could not be started and raises 'error'
\* ("failed"); the maps after the call, and whether the call threw
startBuildWatcher(pane, spawned) ==
  LET language == detectLanguage(pane.command)
  IN  IF language = NoLanguage \/ spawned = "throws"
      THEN [ threw |-> FALSE, buildWatchers |-> buildWatchers, buildProcesses |-> buildProcesses ]
      ELSE [ threw |-> FALSE,
             buildWatchers |-> MapSet(buildWatchers, pane.id, Len(buildProcesses) + 1),
             buildProcesses |-> Append(buildProcesses,
                                  [ paneId |-> pane.id, language |-> language, state |-> spawned ]) ]

\* startWatching(pane); stats is what stat(pane.logFile) in watchFile does:
\* it returns ("ok") or throws because the file does not exist ("ENOENT")
startWatching(pane, stats, spawned) ==
  /\ UNCHANGED <<emitted, historyVars>>
  /\ IF pane.id \in watchedPanes
     THEN /\ watcherCall' = [ op |-> "startWatching", paneId |-> pane.id, stats |-> stats,
                              spawned |-> "none", threw |-> FALSE ]
          /\ UNCHANGED <<watchedPanes, tailedPanes, buildWatchers, buildProcesses>>
     ELSE /\ watchedPanes' = watchedPanes \cup {pane.id}
          /\ IF stats = "ENOENT"
             THEN /\ watcherCall' = [ op |-> "startWatching", paneId |-> pane.id, stats |-> stats,
                                      spawned |-> "none", threw |-> TRUE ]
                  /\ UNCHANGED <<tailedPanes, buildWatchers, buildProcesses>>
             ELSE LET started == startBuildWatcher(pane, spawned)
                  IN  /\ tailedPanes' = tailedPanes \cup {pane.id}
                      /\ buildWatchers' = started.buildWatchers
                      /\ buildProcesses' = started.buildProcesses
                      /\ watcherCall' = [ op |-> "startWatching", paneId |-> pane.id, stats |-> stats,
                                          spawned |-> spawned,
                                          threw |-> started.threw ]

\* stopWatching(paneId)
stopWatching(paneId) ==
  /\ watchedPanes' = watchedPanes \ {paneId}
  /\ IF Has(buildWatchers, paneId)
     THEN /\ buildProcesses' = [ buildProcesses EXCEPT ![buildWatchers[paneId]].state =
                                   IF @ = "running" THEN "killed" ELSE @ ]
          /\ buildWatchers' = MapDelete(buildWatchers, paneId)
     ELSE UNCHANGED <<buildWatchers, buildProcesses>>
  /\ errorCache' = MapDelete(errorCache, paneId)
  /\ pushed' = [ pushed EXCEPT ![paneId] = 0 ]
  /\ watcherCall' = [ op |-> "stopWatching", paneId |-> paneId ]
  /\ UNCHANGED <<tailedPanes, emitted>>

\* this.matchErrorPatterns(line, paneId, language) over the seeded patterns
\* for the lines and the languages of the panes
SeededEntries ==
  [ line \in OutputLines, language \in {NoLanguage, "typescript"} |->
      watcherMatchErrorPatterns(ErrorWatcherPatterns, line, language) ]

\* processBuildOutput(output, paneId, language) for an output of one line
processBuildOutput(output, paneId, language) ==
  LET errorEntry == IF watcherPatterns = ErrorWatcherPatterns
                    THEN SeededEntries[output, language]
                    ELSE watcherMatchErrorPatterns(watcherPatterns, output, language)
  IN  /\ IF errorEntry = Null THEN UNCHANGED <<emitted, historyVars>>
         ELSE /\ addError([ paneId |-> paneId, id |-> pushed[paneId] + 1 ])
              /\ emitted' = IF errorEntry.type \in {"error", "warning"}
                            THEN Append(emitted, [ event |-> errorEntry.type, paneId |-> paneId ])
                            ELSE emitted
      /\ UNCHANGED <<watchedPanes, tailedPanes, buildWatchers, buildProcesses, watcherCall>>

\* processLogContent(content, paneId) for a content of one line
processLogContent(content, paneId) == processBuildOutput(content, paneId, NoLanguage)

(***************************************************************************)
(* SessionSerializer: session handoffs (src/unnamed/part_002, 281-332)     *)
(***************************************************************************)
\* the serializer's clock runs over 0 .. MaxHandoffClock, in units of ten minutes
MaxHandoffClock == 4
\* at most MaxHandoffs handoffs are created
MaxHandoffs == 1
\* at most MaxAccepts calls of acceptSessionHandoff are made
MaxAccepts == 2

\* the lifetime of a handoff, in units of ten minutes (30 * 60 * 1000 ms)
handoffLifetime == 3

\* the stored sessions that deserializeSession finds
StoredSessions == { <<"d", "e", "v">> }

VARIABLES
  today,          \* Date.now() of the serializer, in units of ten minutes
  handoffFiles,   \* the files `${handoffId}.json` of the storage directory
  handoffs,       \* the handoffs createSessionHandoff returned
  accepts         \* the calls of acceptSessionHandoff: where each stands and what it returned

handoffVars == <<today, handoffFiles, handoffs, accepts>>

HandoffInit ==
  /\ today = 0
  /\ handoffFiles = EmptyMap
  /\ handoffs = <<>>
  /\ accepts = <<>>

\* `handoff-${sessionName}-${Date.now()}`
HandoffId(sessionName, time) == <<"handoff", sessionName, time>>

\* createSessionHandoff(sessionName) for a session that deserializeSession finds
createSessionHandoff(sessionName) ==
  LET handoffId == HandoffId(sessionName, today)
      handoffData == [ session |-> sessionName, handoffId |-> handoffId,
                       createdAt |-> today, expiresAt |-> today + handoffLifetime ]
  IN  /\ handoffFiles' = MapSet(handoffFiles, handoffId, handoffData)
      /\ handoffs' = Append(handoffs, handoffData)
      /\ UNCHANGED <<today, accepts>>

\* acceptSessionHandoff(handoffId): the call, up to await readFile
acceptSessionHandoff(handoffId) ==
  /\ accepts' = Append(accepts, [ handoffId |-> handoffId, calledAt |-> today, pc |-> "readFile",
                                  returned |-> "pending" ])
  /\ UNCHANGED <<today, handoffFiles, handoffs>>

\* acceptSessionHandoff: readFile settles; a missing file and an expired
\* handoff throw, which the catch block turns into null; otherwise the call
\* awaits import('fs/promises')
acceptRead(c) ==
  /\ accepts[c].pc = "readFile"
  /\ IF ~Has(handoffFiles, accepts[c].handoffId)
     THEN accepts' = [ accepts EXCEPT ![c].pc = "returned", ![c].returned = "null" ]
     ELSE IF today > handoffFiles[accepts[c].handoffId].expiresAt
          THEN accepts' = [ accepts EXCEPT ![c].pc = "returned", ![c].returned = "null" ]
          ELSE accepts' = [ accepts EXCEPT ![c].pc = "unlink" ]
  /\ UNCHANGED <<today, handoffFiles, handoffs>>

\* acceptSessionHandoff: unlink(handoffPath), whose failure is ignored, and
\* return handoffData.session
acceptUnlink(c) ==
  /\ accepts[c].pc = "unlink"
  /\ handoffFiles' = MapDelete(handoffFiles, accepts[c].handoffId)
  /\ accepts' = [ accepts EXCEPT ![c].pc = "returned", ![c].returned = "session" ]
  /\ UNCHANGED <<today, handoffs>>

vars == <<resolverVars, tailerVars, triggerVars, historyVars, escaperVars, classifierVars, lifecycleVars, handoffVars>>

Init ==
  /\ ResolverInit /\ TailerInit /\ TriggerInit /\ HistoryInit /\ EscaperInit /\ ClassifierInit /\ LifecycleInit
  /\ HandoffInit

ResolverNext ==
  \/ /\ \E n \in NativeIds, t \in Triples : registerPane(n, t[1], t[2], t[3])
     /\ UNCHANGED <<tailerVars, triggerVars, historyVars, escaperVars, classifierVars, lifecycleVars, handoffVars>>
  \/ /\ \E id \in ResolveInputs : resolveToNative(id)
     /\ UNCHANGED <<tailerVars, triggerVars, historyVars, escaperVars, classifierVars, lifecycleVars, handoffVars>>
  \/ /\ \E id \in ResolveInputs : resolveToStructured(id)
     /\ UNCHANGED <<tailerVars, triggerVars, historyVars, escaperVars, classifierVars, lifecycleVars, handoffVars>>
  \/ /\ \E s \in SessionNames : clearSession(s)
     /\ UNCHANGED <<tailerVars, triggerVars, historyVars, escaperVars, classifierVars, lifecycleVars, handoffVars>>
  \/ cleanupOldMappings /\ UNCHANGED <<tailerVars, triggerVars, historyVars, escaperVars, classifierVars, lifecycleVars, handoffVars>>
  \* the wall clock advances
  \/ /\ /\ now < MaxTime
        /\ now' = now + 1
        /\ UNCHANGED <<nativeToStructured, structuredToNative, resolverCall>>
     /\ UNCHANGED <<tailerVars, triggerVars, historyVars, escaperVars, classifierVars, lifecycleVars, handoffVars>>

ResolverSpec == Init /\ [][ResolverNext]_vars

TailerNext ==
  \/ /\ watchFile(LogFile)
     /\ UNCHANGED <<resolverVars, triggerVars, historyVars, escaperVars, classifierVars, lifecycleVars, handoffVars>>
  \/ /\ \E h \in 1..MaxHandlers : handleFileChangeStart(h, LogFile)
     /\ UNCHANGED <<resolverVars, triggerVars, historyVars, escaperVars, classifierVars, lifecycleVars, handoffVars>>
  \/ /\ \E h \in 1..MaxHandlers : handleFileChangeStat(h, LogFile)
     /\ UNCHANGED <<resolverVars, triggerVars, historyVars, escaperVars, classifierVars, lifecycleVars, handoffVars>>
  \/ /\ \E h \in 1..MaxHandlers : handleFileChangeRead(h, LogFile)
     /\ UNCHANGED <<resolverVars, triggerVars, historyVars, escaperVars, classifierVars, lifecycleVars, handoffVars>>
  \/ /\ \E op \in { "stopWatching", "stopAll" } : closeWatch(op, LogFile)
     /\ UNCHANGED <<resolverVars, triggerVars, historyVars, escaperVars, classifierVars, lifecycleVars, handoffVars>>
  \/ /\ \E b \in Bytes : AppendByte(b)
     /\ UNCHANGED <<resolverVars, triggerVars, historyVars, escaperVars, classifierVars, lifecycleVars, handoffVars>>
  \/ /\ \E k \in 0..MaxFileLen : TruncateFile(k)
     /\ UNCHANGED <<resolverVars, triggerVars, historyVars, escaperVars, classifierVars, lifecycleVars, handoffVars>>

TailerSpec == Init /\ [][TailerNext]_vars

TriggerNext ==
  \/ /\ \E error \in ErrorEntries : handleError(error, ListenerReturns)
     /\ UNCHANGED <<resolverVars, tailerVars, historyVars, escaperVars, classifierVars, lifecycleVars, handoffVars>>
  \/ /\ \E p \in TargetPanes : \E errors \in ErrorBatches(p) : handleMultipleErrors(p, errors, ListenerReturns)
     /\ UNCHANGED <<resolverVars, tailerVars, historyVars, escaperVars, classifierVars, lifecycleVars, handoffVars>>
  \/ /\ \E p \in TargetPanes : handleProcessCrash(p, ListenerReturns)
     /\ UNCHANGED <<resolverVars, tailerVars, historyVars, escaperVars, classifierVars, lifecycleVars, handoffVars>>
  \/ clearHistory /\ UNCHANGED <<resolverVars, tailerVars, historyVars, escaperVars, classifierVars, lifecycleVars, handoffVars>>
  \* a minute passes
  \/ /\ /\ clock < MaxClock
        /\ clock' = clock + 1
        /\ UNCHANGED <<lastTriggers, activeAnalyses, integratorCall, categoryFired>>
     /\ UNCHANGED <<resolverVars, tailerVars, historyVars, escaperVars, classifierVars, lifecycleVars, handoffVars>>

TriggerSpec == Init /\ [][TriggerNext]_vars

\* the handlers of the integrator with listeners that return, throw or call
\* back into the integrator
ListenerNext ==
  \/ /\ \E error \in ErrorEntries, listener \in Listeners : handleError(error, listener)
     /\ UNCHANGED <<resolverVars, tailerVars, historyVars, escaperVars, classifierVars, lifecycleVars, handoffVars>>
  \/ /\ \E p \in TargetPanes : \E errors \in ErrorBatches(p), listener \in Listeners :
          handleMultipleErrors(p, errors, listener)
     /\ UNCHANGED <<resolverVars, tailerVars, historyVars, escaperVars, classifierVars, lifecycleVars, handoffVars>>
  \/ /\ \E p \in TargetPanes, listener \in Listeners : handleProcessCrash(p, listener)
     /\ UNCHANGED <<resolverVars, tailerVars, historyVars, escaperVars, classifierVars, lifecycleVars, handoffVars>>
  \/ clearHistory /\ UNCHANGED <<resolverVars, tailerVars, historyVars, escaperVars, classifierVars, lifecycleVars, handoffVars>>
  \* a minute passes
  \/ /\ /\ clock < MaxListenerClock
        /\ clock' = clock + 1
        /\ UNCHANGED <<lastTriggers, activeAnalyses, integratorCall, categoryFired>>
     /\ UNCHANGED <<resolverVars, tailerVars, historyVars, escaperVars, classifierVars, lifecycleVars, handoffVars>>

ListenerSpec == Init /\ [][ListenerNext]_vars

HistoryNext ==
  \* the entry built for the next matching line of a pane; id stands for the
  \* unique id string and is the ordinal of the entry in the pane's history array
  \/ /\ \E p \in TargetPanes :
          /\ pushed[p] < MaxPushed
          /\ addError([ paneId |-> p, id |-> pushed[p] + 1 ])
     /\ UNCHANGED <<resolverVars, tailerVars, triggerVars, escaperVars, classifierVars, lifecycleVars, handoffVars>>
  \/ /\ \E p \in TargetPanes \cup {None} :
          clearErrors(p)
     /\ UNCHANGED <<resolverVars, tailerVars, triggerVars, escaperVars, classifierVars, lifecycleVars, handoffVars>>

HistorySpec == Init /\ [][HistoryNext]_vars

EscaperNext ==
  \/ /\ /\ escaperCall = NoCall
        /\ \E options \in EscaperOptions, command \in Commands, args \in ArgLists :
             /\ escaperOptions' = options
             /\ escaperCall' = [ op |-> "isCommandSafe", command |-> command, args |-> args ]
             /\ Returns(isCommandSafe(options, command, args))
     /\ UNCHANGED <<resolverVars, tailerVars, triggerVars, historyVars, classifierVars, lifecycleVars, handoffVars>>
  \/ /\ /\ escaperCall = NoCall
        /\ \E options \in EscaperOptions, command \in Commands, args \in ArgLists, opts \in CallOptions,
              settled \in ExecFileSettlements :
             /\ escaperOptions' = options
             /\ Returns(executeCommand(options, command, args, opts, settled))
             /\ escaperCall' = [ op |-> "executeCommand", command |-> command, args |-> args,
                                 validate |-> opts.validate,
                                 settled |-> IF outcome' = Accepted THEN settled ELSE [ kind |-> "none" ] ]
     /\ UNCHANGED <<resolverVars, tailerVars, triggerVars, historyVars, classifierVars, lifecycleVars, handoffVars>>
  \/ /\ /\ escaperCall = NoCall
        /\ \E options \in EscaperOptions, command \in Commands, args \in ArgLists, opts \in CallOptions :
             /\ escaperOptions' = options
             /\ escaperCall' = [ op |-> "spawnProcess", command |-> command, args |-> args,
                                 validate |-> opts.validate ]
             /\ Returns(spawnProcess(options, command, args, opts))
     /\ UNCHANGED <<resolverVars, tailerVars, triggerVars, historyVars, classifierVars, lifecycleVars, handoffVars>>
  \/ /\ /\ escaperCall = NoCall
        /\ \E options \in EscaperOptions, subcommand \in { <<"s", "e", "n", "d", "-", "k", "e", "y", "s">>, <<"k", "i", "l", "l", "-", "s", "e", "s", "s", "i", "o", "n">> },
              args \in ArgLists, opts \in CallOptions, settled \in ExecFileSettlements :
             /\ escaperOptions' = options
             /\ Returns(executeTmuxCommand(options, subcommand, args, opts, settled))
             /\ escaperCall' = [ op |-> "executeTmuxCommand", command |-> subcommand, args |-> args,
                                 validate |-> opts.validate,
                                 settled |-> IF outcome' = Accepted THEN settled ELSE [ kind |-> "none" ] ]
     /\ UNCHANGED <<resolverVars, tailerVars, triggerVars, historyVars, classifierVars, lifecycleVars, handoffVars>>
  \/ /\ /\ escaperCall = NoCall
        /\ \E options \in EscaperOptions, command \in PaneCommands, opts \in CallOptions,
              settled \in ExecFileSettlements :
             /\ escaperOptions' = options
             /\ Returns(sendKeysToPane(options, <<"%", "1">>, command, opts, settled))
             /\ escaperCall' = [ op |-> "sendKeysToPane", command |-> command, args |-> << <<"%", "1">> >>,
                                 validate |-> opts.validate,
                                 settled |-> IF outcome' = Accepted THEN settled ELSE [ kind |-> "none" ] ]
     /\ UNCHANGED <<resolverVars, tailerVars, triggerVars, historyVars, classifierVars, lifecycleVars, handoffVars>>
  \/ /\ /\ escaperCall = NoCall
        /\ \E command \in StringsUpTo(MaxCommandLen) :
             /\ escaperOptions' = escaperOptions
             /\ escaperCall' = [ op |-> "escapeForTmuxSendKeys", command |-> command ]
             /\ Returns([ outcome |-> escapeForTmuxSendKeys(command), launched |-> NoProcess,
                          result |-> NoResult ])
     /\ UNCHANGED <<resolverVars, tailerVars, triggerVars, historyVars, classifierVars, lifecycleVars, handoffVars>>

  \/ /\ /\ escaperCall = NoCall
        /\ \E mkdir \in {"ok", "EACCES"}, settled \in ExecFileSettlements :
             /\ escaperOptions' = [ allowDangerous |-> FALSE ]
             /\ Returns(initialize(escaperOptions', mkdir, settled))
             /\ escaperCall' = [ op |-> "initialize", mkdir |-> mkdir,
                                 settled |-> IF launched' # NoProcess THEN settled ELSE [ kind |-> "none" ] ]
     /\ UNCHANGED <<resolverVars, tailerVars, triggerVars, historyVars, classifierVars, lifecycleVars, handoffVars>>
  \/ /\ /\ escaperCall = NoCall
        /\ \E lsof \in ExecFileSettlements, netstat \in ExecFileSettlements :
             /\ escaperOptions' = [ allowDangerous |-> FALSE ]
             /\ Returns(listPorts(escaperOptions', lsof, netstat))
             /\ escaperCall' = [ op |-> "listPorts", lsof |-> lsof,
                                 netstat |-> IF launched'.command # <<"s", "h">> THEN netstat ELSE [ kind |-> "none" ] ]
     /\ UNCHANGED <<resolverVars, tailerVars, triggerVars, historyVars, classifierVars, lifecycleVars, handoffVars>>

EscaperSpec == Init /\ [][EscaperNext]_vars

ClassifierNext ==
  \/ /\ /\ classifierCall = NoClassification
        /\ patternChanges < MaxPatternChanges
        /\ \E pattern \in { "custom.custom-error", "custom.temp-pattern", "custom.at-line",
                             "custom.general_error" } :
             /\ analyzerPatterns' = addCustomPattern(analyzerPatterns, pattern)
             /\ patternChanges' = patternChanges + 1
             /\ UNCHANGED <<watcherPatterns, classifierCall, classified>>
     /\ UNCHANGED <<resolverVars, tailerVars, triggerVars, historyVars, escaperVars, lifecycleVars, handoffVars>>
  \/ /\ /\ classifierCall = NoClassification
        /\ patternChanges < MaxPatternChanges
        /\ \E name \in { "typescript", "general_error", "typescript_watch", "custom-error" } :
             /\ analyzerPatterns' = removePattern(analyzerPatterns, name)
             /\ patternChanges' = patternChanges + 1
             /\ UNCHANGED <<watcherPatterns, classifierCall, classified>>
     /\ UNCHANGED <<resolverVars, tailerVars, triggerVars, historyVars, escaperVars, lifecycleVars, handoffVars>>
  \/ /\ /\ classifierCall = NoClassification
        /\ patternChanges < MaxPatternChanges
        /\ \E pattern \in { "custom.custom-error", "custom.temp-pattern", "custom.at-line",
                             "custom.general_error" } :
             /\ watcherPatterns' = addCustomPattern(watcherPatterns, pattern)
             /\ patternChanges' = patternChanges + 1
             /\ UNCHANGED <<analyzerPatterns, classifierCall, classified>>
     /\ UNCHANGED <<resolverVars, tailerVars, triggerVars, historyVars, escaperVars, lifecycleVars, handoffVars>>
  \/ /\ /\ classifierCall = NoClassification
        /\ patternChanges < MaxPatternChanges
        /\ \E name \in { "typescript", "general_error", "typescript_watch", "custom-error" } :
             /\ watcherPatterns' = removePattern(watcherPatterns, name)
             /\ patternChanges' = patternChanges + 1
             /\ UNCHANGED <<analyzerPatterns, classifierCall, classified>>
     /\ UNCHANGED <<resolverVars, tailerVars, triggerVars, historyVars, escaperVars, lifecycleVars, handoffVars>>
  \/ /\ /\ classifierCall = NoClassification
        /\ \E line \in LogLines :
             /\ classifierCall' = [ op |-> "LogAnalyzer.matchErrorPatterns", line |-> line,
                                    language |-> NoLanguage ]
             /\ classified' = analyzerMatchErrorPatterns(analyzerPatterns, line)
             /\ UNCHANGED <<analyzerPatterns, watcherPatterns, patternChanges>>
     /\ UNCHANGED <<resolverVars, tailerVars, triggerVars, historyVars, escaperVars, lifecycleVars, handoffVars>>
  \/ /\ /\ classifierCall = NoClassification
        /\ \E line \in LogLines, language \in { NoLanguage, "typescript", "rust", "go" } :
             /\ classifierCall' = [ op |-> "ErrorWatcher.matchErrorPatterns", line |-> line,
                                    language |-> language ]
             /\ classified' = watcherMatchErrorPatterns(watcherPatterns, line, language)
             /\ UNCHANGED <<analyzerPatterns, watcherPatterns, patternChanges>>
     /\ UNCHANGED <<resolverVars, tailerVars, triggerVars, historyVars, escaperVars, lifecycleVars, handoffVars>>

ClassifierSpec == Init /\ [][ClassifierNext]_vars

\* the calls that edit the pattern lists, without a classification after them
PatternListNext ==
  \/ /\ /\ patternChanges < MaxListEdits
        /\ \E pattern \in { "custom.custom-error", "custom.temp-pattern", "custom.at-line",
                             "custom.general_error" } :
             /\ analyzerPatterns' = addCustomPattern(analyzerPatterns, pattern)
             /\ patternChanges' = patternChanges + 1
             /\ UNCHANGED <<watcherPatterns, classifierCall, classified>>
     /\ UNCHANGED <<resolverVars, tailerVars, triggerVars, historyVars, escaperVars, lifecycleVars, handoffVars>>
  \/ /\ /\ patternChanges < MaxListEdits
        /\ \E name \in { "typescript", "general_error", "typescript_watch", "custom-error" } :
             /\ analyzerPatterns' = removePattern(analyzerPatterns, name)
             /\ patternChanges' = patternChanges + 1
             /\ UNCHANGED <<watcherPatterns, classifierCall, classified>>
     /\ UNCHANGED <<resolverVars, tailerVars, triggerVars, historyVars, escaperVars, lifecycleVars, handoffVars>>
  \/ /\ /\ patternChanges < MaxListEdits
        /\ \E pattern \in { "custom.custom-error", "custom.temp-pattern", "custom.at-line",
                             "custom.general_error" } :
             /\ watcherPatterns' = addCustomPattern(watcherPatterns, pattern)
             /\ patternChanges' = patternChanges + 1
             /\ UNCHANGED <<analyzerPatterns, classifierCall, classified>>
     /\ UNCHANGED <<resolverVars, tailerVars, triggerVars, historyVars, escaperVars, lifecycleVars, handoffVars>>
  \/ /\ /\ patternChanges < MaxListEdits
        /\ \E name \in { "typescript", "general_error", "typescript_watch", "custom-error" } :
             /\ watcherPatterns' = removePattern(watcherPatterns, name)
             /\ patternChanges' = patternChanges + 1
             /\ UNCHANGED <<analyzerPatterns, classifierCall, classified>>
     /\ UNCHANGED <<resolverVars, tailerVars, triggerVars, historyVars, escaperVars, lifecycleVars, handoffVars>>

PatternListSpec == Init /\ [][PatternListNext]_vars

LifecycleNext ==
  \/ /\ Len(buildProcesses) < MaxProcesses
     /\ \E pane \in Panes, stats \in {"ok", "ENOENT"} :
          \E spawned \in IF stats = "ok" /\ pane.id \notin watchedPanes
                          THEN {"running", "failed", "throws"} ELSE {"none"} :
            startWatching(pane, stats, spawned)
     /\ UNCHANGED <<resolverVars, tailerVars, triggerVars, escaperVars, classifierVars, handoffVars>>
  \/ /\ \E paneId \in TargetPanes : stopWatching(paneId)
     /\ UNCHANGED <<resolverVars, tailerVars, triggerVars, escaperVars, classifierVars, handoffVars>>
  \* the content callback of a watched log file
  \/ /\ Len(emitted) < MaxEmitted
     /\ \E paneId \in tailedPanes, content \in OutputLines : processLogContent(content, paneId)
     /\ UNCHANGED <<resolverVars, tailerVars, triggerVars, escaperVars, classifierVars, handoffVars>>
  \* buildProcess.stdout / stderr .on('data')
  \/ /\ Len(emitted) < MaxEmitted
     /\ \E k \in 1..Len(buildProcesses), output \in OutputLines :
          /\ buildProcesses[k].state = "running"
          /\ processBuildOutput(output, buildProcesses[k].paneId, buildProcesses[k].language)
     /\ UNCHANGED <<resolverVars, tailerVars, triggerVars, escaperVars, classifierVars, handoffVars>>
  \* buildProcess.on('exit'): of a process that ran, was killed or did not start
  \/ /\ \E k \in 1..Len(buildProcesses) :
          /\ buildProcesses[k].state # "exited"
          /\ buildProcesses' = [ buildProcesses EXCEPT ![k].state = "exited" ]
          /\ buildWatchers' = MapDelete(buildWatchers, buildProcesses[k].paneId)
     /\ UNCHANGED <<watchedPanes, tailedPanes, emitted, watcherCall, historyVars>>
     /\ UNCHANGED <<resolverVars, tailerVars, triggerVars, escaperVars, classifierVars, handoffVars>>

LifecycleSpec == Init /\ [][LifecycleNext]_vars

HandoffNext ==
  \/ /\ /\ Len(handoffs) < MaxHandoffs
        /\ \E sessionName \in StoredSessions : createSessionHandoff(sessionName)
     /\ UNCHANGED <<resolverVars, tailerVars, triggerVars, historyVars, escaperVars, classifierVars, lifecycleVars>>
  \/ /\ /\ Len(accepts) < MaxAccepts
        /\ \E h \in 1..Len(handoffs) : acceptSessionHandoff(handoffs[h].handoffId)
     /\ UNCHANGED <<resolverVars, tailerVars, triggerVars, historyVars, escaperVars, classifierVars, lifecycleVars>>
  \/ /\ \E c \in 1..Len(accepts) : acceptRead(c)
     /\ UNCHANGED <<resolverVars, tailerVars, triggerVars, historyVars, escaperVars, classifierVars, lifecycleVars>>
  \/ /\ \E c \in 1..Len(accepts) : acceptUnlink(c)
     /\ UNCHANGED <<resolverVars, tailerVars, triggerVars, historyVars, escaperVars, classifierVars, lifecycleVars>>
  \* ten minutes pass
  \/ /\ /\ today < MaxHandoffClock
        /\ today' = today + 1
        /\ UNCHANGED <<handoffFiles, handoffs, accepts>>
     /\ UNCHANGED <<resolverVars, tailerVars, triggerVars, historyVars, escaperVars, classifierVars, lifecycleVars>>

HandoffSpec == Init /\ [][HandoffNext]_vars

(***************************************************************************)
(* Properties of PaneIdResolver                                            *)
(***************************************************************************)
\* C1: for every mapping held in either lookup table, resolving its native
\* handle to the structured id and back gives the handle again, and resolving
\* its structured id to the native handle and back gives the structured id again.
C1_RoundTrip ==
  /\ \A h \in DOMAIN nativeToStructured :
       resolveToNativeResult(resolveToStructuredResult(h)) = h
  /\ \A id \in DOMAIN structuredToNative :
       resolveToStructuredResult(resolveToNativeResult(id)) = id

\* C2: the two lookup tables are exact inverses of each other: every entry of
\* one has its mirror entry in the other, so no native handle and no
\* structured id occurs in two live mappings.
C2_ExactInverses ==
  /\ \A h \in DOMAIN nativeToStructured :
       /\ Has(structuredToNative, nativeToStructured[h].structuredId)
       /\ structuredToNative[nativeToStructured[h].structuredId].nativeId = h
  /\ \A id \in DOMAIN structuredToNative :
       /\ Has(nativeToStructured, structuredToNative[id].nativeId)
       /\ nativeToStructured[structuredToNative[id].nativeId].structuredId = id

\* the structured ids of a session
SessionIds(s) == { buildStructuredId(t[1], t[2], t[3]) : t \in { u \in Triples : u[1] = s } }

\* C3: a clearSession(s) step leaves no mapping of session s in either lookup
\* table, every structured id of s then resolves to itself, and the mappings
\* of the other sessions are what they were before the step.
C3_ClearSession ==
  [][ \A s \in SessionNames :
        (resolverCall'.op = "clearSession" /\ resolverCall'.sessionName = s /\ now' = now) =>
          /\ \A h \in DOMAIN nativeToStructured' : nativeToStructured'[h].sessionName # s
          /\ \A id \in DOMAIN structuredToNative' : structuredToNative'[id].sessionName # s
          /\ \A id \in SessionIds(s) : resolveToNativeResult(id)' = id
          /\ \A h \in DOMAIN nativeToStructured :
               nativeToStructured[h].sessionName # s =>
                 Has(nativeToStructured', h) /\ nativeToStructured'[h] = nativeToStructured[h]
          /\ \A id \in DOMAIN structuredToNative :
               structuredToNative[id].sessionName # s =>
                 Has(structuredToNative', id) /\ structuredToNative'[id] = structuredToNative[id]
    ]_vars

\* an identifier of canonical spelling that no live mapping carries
NoMapping(id) ==
  /\ id \in ResolveInputs \ { <<"a", ":", "0", "0", ".", "0">> }
  /\ ~Has(nativeToStructured, id)
  /\ ~Has(structuredToNative, id)
  /\ \A h \in DOMAIN nativeToStructured : nativeToStructured[h].structuredId # id

C5_RegisterEvicts ==
  resolverCall.op = "registerPane" =>
    /\ resolverCall.result =
         buildStructuredId(resolverCall.sessionName, resolverCall.windowIndex, resolverCall.paneIndex)
    /\ resolverCall.previous \notin { None, resolverCall.nativeId } =>
         /\ resolveToStructuredResult(resolverCall.previous) = resolverCall.previous
         /\ resolveToNativeResult(resolverCall.result) = resolverCall.nativeId

\* reached: a triple registered with one handle was registered again with another handle
C5_Witness ==
  /\ resolverCall.op = "registerPane"
  /\ resolverCall.previous \notin { None, resolverCall.nativeId }
  /\ resolveToNativeResult(resolverCall.result) = resolverCall.nativeId

(***************************************************************************)
(* Properties of FileWatcher                                               *)
(***************************************************************************)
\* the file offsets a callback invocation carried
DeliveredRange(d) == (d.offset + 1)..(d.offset + Len(d.content))

\* C6: while the watched file has only grown by appending, no file offset is
\* carried by two callback invocations.
C6_NoRedelivery ==
  truncations = 0 =>
    \A i, j \in 1..Len(delivered) :
      i < j => DeliveredRange(delivered[i]) \cap DeliveredRange(delivered[j]) = {}

\* C7: in every step the recorded offset of the watched file stays or grows,
\* unless the file is shorter than the recorded offset and the step sets it to 0.
C7_OffsetMonotonic ==
  [][ (Has(filePositions, LogFile) /\ Has(filePositions', LogFile)) =>
        \/ filePositions'[LogFile] >= filePositions[LogFile]
        \/ Len(fileContent) < filePositions[LogFile] /\ filePositions'[LogFile] = 0
    ]_vars

\* C8: every callback invocation starts at or after the end of the byte range
\* of every earlier invocation.
C8_InFileOrder ==
  \A i, j \in 1..Len(delivered) :
    i < j => delivered[j].offset >= delivered[i].offset + Len(delivered[i].content)

(***************************************************************************)
(* Properties of McpIntegrator                                             *)
(***************************************************************************)
\* the handler call recorded in integratorCall is a qualifying event for pane p
Qualifying(p) ==
  /\ integratorCall.op \in { "handleError", "handleMultipleErrors", "handleProcessCrash" }
  /\ integratorCall.paneId = p
  /\ integratorCall.op = "handleMultipleErrors" =>
       integratorCall.errorCount >= config.sequentialThinking.triggers.onMultipleErrors

\* the analysis triggers the recorded handler call emitted
SequentialEmitted ==
  Cardinality({ i \in 1..Len(integratorCall.emitted) :
                  integratorCall.emitted[i].event = "trigger_sequential" })

\* the analysis category of the recorded handler call
Category ==
  CASE integratorCall.op = "handleError" -> "error_analysis"
    [] integratorCall.op = "handleMultipleErrors" -> "multiple_errors_analysis"
    [] integratorCall.op = "handleProcessCrash" -> "crash_analysis"

Categories == { "error_analysis", "multiple_errors_analysis", "crash_analysis" }

\* C9: a qualifying event for key sequential_p emits no trigger while less
\* than the cooldown has passed since the key's lastFiredAt, and emits exactly
\* one trigger when the key has no record or the cooldown has elapsed.
C9_Cooldown ==
  [][ \A p \in TargetPanes :
        (Qualifying(p)' /\ clock' = clock) =>
          SequentialEmitted' =
            IF Has(lastTriggers, sequentialKey(p))
                 /\ clock - lastTriggers[sequentialKey(p)] < sequentialDebounce
            THEN 0 ELSE 1
    ]_vars

\* reached: a trigger fired for p1 at minute 0 and an error event fired again when the window had elapsed
C9_Witness ==
  /\ Qualifying(<<"p", "1">>)
  /\ integratorCall.op = "handleError"
  /\ SequentialEmitted = 1
  /\ clock = sequentialDebounce
  /\ Has(categoryFired, <<"crash_analysis", <<"p", "1">>>>)
  /\ categoryFired[<<"crash_analysis", <<"p", "1">>>>] = 0

\* category c fired for pane p less than the cooldown ago
CoolingDown(c, p) ==
  Has(categoryFired, <<c, p>>) /\ clock - categoryFired[<<c, p>>] < sequentialDebounce

\* C10 as stated: each analysis category of a target has its own cooldown: a
\* qualifying event emits its trigger unless a trigger of the same category
\* fired for the same target less than the cooldown ago.
C10_PerCategory ==
  [][ \A p \in TargetPanes :
        (Qualifying(p)' /\ clock' = clock) =>
          SequentialEmitted' = IF CoolingDown(Category', p) THEN 0 ELSE 1
    ]_vars

\* C10 amended: the analysis categories of a target share one cooldown: a
\* qualifying event emits its trigger unless a trigger of any analysis
\* category fired for the same target less than the cooldown ago; what fired
\* for another target does not matter.
C10_PerTarget ==
  [][ \A p \in TargetPanes :
        (Qualifying(p)' /\ clock' = clock) =>
          SequentialEmitted' = IF \E c \in Categories : CoolingDown(c, p) THEN 0 ELSE 1
    ]_vars

\* reached: a crash event for p1 emitted no trigger although only an error
\* trigger had fired for p1, and a trigger had fired for p2
C10_Witness ==
  /\ Qualifying(<<"p", "1">>)
  /\ integratorCall.op = "handleProcessCrash"
  /\ SequentialEmitted = 0
  /\ Has(categoryFired, <<"error_analysis", <<"p", "1">>>>)
  /\ ~Has(categoryFired, <<"crash_analysis", <<"p", "1">>>>)
  /\ \E c \in Categories : Has(categoryFired, <<c, <<"p", "2">>>>)

(***************************************************************************)
(* Properties of the ErrorWatcher history                                  *)
(***************************************************************************)
\* C11: the error history of every pane holds at most 100 entries in every
\* reachable state, and a step that adds an entry leaves the history equal to
\* the last (at most 100) entries of the old history followed by the new
\* entry: what is removed is exactly the oldest entries, and what remains
\* keeps its insertion order.
C11_BoundedFifo ==
  /\ [](\A p \in TargetPanes : Len(getErrors(p)) <= 100)
  /\ [][\A p \in TargetPanes :
          pushed'[p] = pushed[p] + 1 =>
            LET all == Append(getErrors(p), [ paneId |-> p, id |-> pushed'[p] ])
                n == IF Len(all) < 100 THEN Len(all) ELSE 100
            IN  errorCache'[p] = SubSeq(all, Len(all) - n + 1, Len(all))]_vars

\* an entry was added to a full history, which then holds the entries 2..101
C11_Witness ==
  \E p \in TargetPanes :
    /\ pushed[p] = 101
    /\ Len(getErrors(p)) = 100
    /\ getErrors(p)[1].id = 2
    /\ getErrors(p)[100].id = 101

(***************************************************************************)
(* Properties of CommandEscaper                                            *)
(***************************************************************************)
\* the part of a command after its last '/': the whole command when it holds
\* no '/'
AfterLastSlash(command) ==
  IF Includes(command, "/")
  THEN LET last == CHOOSE i \in 1..Len(command) :
                     command[i] = "/" /\ \A j \in (i + 1)..Len(command) : command[j] # "/"
       IN  SubSeq(command, last + 1, Len(command))
  ELSE command

\* the call ran validateCommand on its command and arguments
Validated ==
  \/ escaperCall.op = "isCommandSafe"
  \/ escaperCall.op \in {"executeCommand", "spawnProcess"} /\ escaperCall.validate = "true"

\* C12: on an escaper whose allowDangerous is unset, validation rejects every
\* command whose part after the last '/' is in the denylist, whatever its
\* arguments; it accepts every command whose base name is not in the denylist
\* and whose joined arguments match none of the five patterns, npm run dev
\* among them.
C12_DenylistRejected ==
  (Validated /\ ~escaperOptions.allowDangerous) =>
    /\ AfterLastSlash(escaperCall.command) \in dangerousCommands => outcome = DangerousBlocked
    /\ ( /\ AfterLastSlash(escaperCall.command) \notin dangerousCommands
         /\ baseCommand(escaperCall.command) \notin dangerousCommands
         /\ \A n \in 1..5 : ~suspiciousPatterns(n, Join(escaperCall.args, <<" ">>)) )
         => outcome = Accepted
    /\ (escaperCall.command = <<"n", "p", "m">> /\ escaperCall.args = << <<"r", "u", "n">>, <<"d", "e", "v">> >>)
         => outcome = Accepted

\* isCommandSafe('/bin/rm', ['-rf', '/']) was rejected as dangerous
C12_Witness ==
  /\ escaperCall = [ op |-> "isCommandSafe", command |-> <<"/", "b", "i", "n", "/", "r", "m">>,
                     args |-> << <<"-", "r", "f">>, <<"/">> >> ]
  /\ ~escaperOptions.allowDangerous
  /\ outcome = DangerousBlocked

\* C13: validation rejects every command one of whose arguments chains into
\* rm, del or format behind ';', '|' or '&&' or holds rm inside $( ) or inside
\* backticks, and every command whose joined arguments match one of the five
\* patterns, with allowDangerous set or unset and for every base command.
C13_InjectionRejected ==
  Validated =>
    /\ (\E n \in 1..Len(escaperCall.args) : escaperCall.args[n] \in InjectionStrings)
         => outcome # Accepted
    /\ (\E n \in 1..5 : suspiciousPatterns(n, Join(escaperCall.args, <<" ">>)))
         => outcome # Accepted

\* with allowDangerous set, npm -c 'a&& RM x' was rejected for its arguments
C13_Witness ==
  /\ escaperCall = [ op |-> "isCommandSafe", command |-> <<"n", "p", "m">>,
                     args |-> << <<"-", "c">>, <<"a", "&", "&", " ", "R", "M", " ", "x">> >> ]
  /\ escaperOptions.allowDangerous
  /\ outcome = SuspiciousPattern

\* C14: a call through executeCommand, executeTmuxCommand, sendKeysToPane or
\* spawnProcess on an escaper whose allowDangerous is unset starts no process
\* whose command has a denylisted base name, and a call that was rejected
\* started no process.
C14_ValidatedBeforeLaunch ==
  /\ (launched # NoProcess /\ ~escaperOptions.allowDangerous)
       => AfterLastSlash(launched.command) \notin dangerousCommands
  /\ outcome \in {DangerousBlocked, SuspiciousPattern} => launched = NoProcess

\* the number of backslashes that stand immediately before position i of str
BackslashesBefore(str, i) ==
  CHOOSE n \in 0..(i - 1) :
    /\ \A k \in (i - n)..(i - 1) : str[k] = "\\"
    /\ (i - n - 1 >= 1 => str[i - n - 1] # "\\")

\* C15: in the output of escapeForTmuxSendKeys every double quote, dollar sign,
\* backtick, semicolon, pipe and ampersand is immediately preceded by an odd
\* number of backslashes.
C15_NoActiveCharacter ==
  escaperCall.op = "escapeForTmuxSendKeys" =>
    \A i \in 1..Len(outcome) :
      outcome[i] \in { "\"", "$", Backtick, ";", "|", "&" }
        => BackslashesBefore(outcome, i) % 2 = 1

\* the text that replaces one character of the input
Substitute(c) ==
  CASE c = "\\" -> <<"\\", "\\">>
    [] c = "\"" -> <<"\\", "\"">>
    [] c = "'" -> <<"'", "\"", "'", "\"", "'">>
    [] c = "$" -> <<"\\", "$">>
    [] c = Backtick -> <<"\\", Backtick>>
    [] c = ";" -> <<"\\", ";">>
    [] c = "|" -> <<"\\", "|">>
    [] c = "&" -> <<"\\", "&">>
    [] OTHER -> <<c>>

RECURSIVE OnePass(_)
\* the substitution of every character of str, left to right, in one pass
OnePass(str) ==
  IF Len(str) = 0 THEN <<>> ELSE Substitute(Head(str)) \o OnePass(Tail(str))

\* C16: the output of escapeForTmuxSendKeys, which replaces backslash, double
\* quote, single quote, dollar, backtick, semicolon, pipe and ampersand in
\* this order, is the one-pass character-by-character substitution of its
\* input; so is the command argument that sendKeysToPane hands to tmux.
C16_OnePass ==
  /\ escaperCall.op = "escapeForTmuxSendKeys" => outcome = OnePass(escaperCall.command)
  /\ (escaperCall.op = "sendKeysToPane" /\ launched # NoProcess)
       => launched.args[4] = OnePass(escaperCall.command)

\* a backslash, a single quote and a dollar sign were escaped
C16_Witness ==
  /\ escaperCall = [ op |-> "escapeForTmuxSendKeys", command |-> <<"\\", "'", "$">> ]
  /\ outcome = <<"\\", "\\", "'", "\"", "'", "\"", "'", "\\", "$">>

(***************************************************************************)
(* Properties of the classification                                        *)
(***************************************************************************)
\* the pattern list the call made went through
CalledPatterns ==
  IF classifierCall.op = "LogAnalyzer.matchErrorPatterns" THEN analyzerPatterns
  ELSE watcherPatterns

\* the positions of the patterns whose matcher matches the line
Matching(patterns, line) ==
  { n \in 1..Len(patterns) : StrMatch(line, PatternObjects[patterns[n]].regex).index # 0 }

\* the positions of the patterns that have no language, or the language of
\* the call, or any language when the call has none
Eligible(patterns, language) ==
  { n \in 1..Len(patterns) :
      \/ language = NoLanguage
      \/ PatternObjects[patterns[n]].language \in {NoLanguage, language} }

\* the least position of a non-empty set of positions
First(positions) == CHOOSE n \in positions : \A m \in positions : n <= m

\* C17 as stated: a classification returns none exactly when no pattern of the
\* list matches the line, and otherwise an event whose kind and language are
\* those of the first pattern of the list that matches the line.
C17_FirstMatch ==
  classifierCall.op # "none" =>
    LET matching == Matching(CalledPatterns, classifierCall.line)
    IN  IF matching = {} THEN classified = Null
        ELSE LET pattern == PatternObjects[CalledPatterns[First(matching)]]
             IN  /\ classified.type = pattern.type
                 /\ classified.language = pattern.language

\* C17 amended: a classification passes over the patterns whose language
\* differs from the language the call is tagged with; it returns none exactly
\* when none of the remaining patterns matches the line, and otherwise the
\* event built from the first remaining pattern that matches: its kind is
\* that pattern's, its language is that pattern's or, when the pattern has
\* none, the language of the call.
C17_FirstEligibleMatch ==
  classifierCall.op # "none" =>
    LET matching == Matching(CalledPatterns, classifierCall.line)
                      \cap Eligible(CalledPatterns, classifierCall.language)
    IN  IF matching = {} THEN classified = Null
        ELSE LET pattern == PatternObjects[CalledPatterns[First(matching)]]
             IN  /\ classified.type = pattern.type
                 /\ classified.language = IF pattern.language # NoLanguage THEN pattern.language
                                          ELSE classifierCall.language
                 /\ classified = buildEntry(pattern, StrMatch(classifierCall.line, pattern.regex),
                                            classifierCall.line, classifierCall.language)

\* a line tagged typescript matched go_watch, which was passed over, and was
\* classified by the custom pattern behind it, taking the language of the call
C17_Witness ==
  /\ classifierCall = [ op |-> "ErrorWatcher.matchErrorPatterns",
                        line |-> <<"a", ".", "g", "o", ":", "1", ":", "2", ":", " ", "C", "U", "S", "T", "O", "M", "_", "E", "R", "R", "O", "R", ":", " ", "x">>, language |-> "typescript" ]
  /\ watcherPatterns = Append(ErrorWatcherPatterns, "custom.custom-error")
  /\ 3 \in Matching(watcherPatterns, classifierCall.line)
  /\ classified.type = "error"
  /\ classified.language = "typescript"
  /\ classified.message = <<"x">>

\* C18: the LogAnalyzer whose first pattern is the seeded typescript pattern
\* classifies every line file(line,col): error TS2339: message with kind error
\* and language typescript, and with the file, the line number and the column
\* number the line was written from.
C18_TypeScriptLine ==
  ( /\ classifierCall.op = "LogAnalyzer.matchErrorPatterns"
    /\ Len(analyzerPatterns) > 0
    /\ analyzerPatterns[1] = "analyzer.typescript" ) =>
    \A f \in TsFiles, p \in TsPositions, m \in TsMessages :
      classifierCall.line = TsLine(f, p[1], p[3], <<"e", "r", "r", "o", "r">>, m) =>
        /\ classified.type = "error"
        /\ classified.language = "typescript"
        /\ classified.file = f
        /\ classified.line = <<p[2]>>
        /\ classified.column = <<p[4]>>

\* the line of the test was classified: src/index.ts, 42, 10
C18_Witness ==
  /\ classifierCall.op = "LogAnalyzer.matchErrorPatterns"
  /\ classifierCall.line =
       <<"s", "r", "c", "/", "i", "n", "d", "e", "x", ".", "t", "s", "(", "4", "2", ",", "1", "0", ")", ":", " ", "e", "r", "r", "o", "r", " ", "T", "S", "2", "3", "3", "9", ":", " ", "P", "r", "o", "p", "e", "r", "t", "y", " ", "'", "f", "o", "o", "'", " ", "d", "o", "e", "s", " ", "n", "o", "t", " ", "e", "x", "i", "s", "t", " ", "o", "n", " ", "t", "y", "p", "e", " ", "'", "s", "t", "r", "i", "n", "g", "'", ".">>
  /\ analyzerPatterns = LogAnalyzerPatterns
  /\ classified.type = "error"
  /\ classified.language = "typescript"
  /\ classified.file = <<"s", "r", "c", "/", "i", "n", "d", "e", "x", ".", "t", "s">>
  /\ classified.line = <<42>>
  /\ classified.column = <<10>>

\* the line holds one of the words, letter case ignored
HasVocabulary(line, words) ==
  \E w \in words, i \in 1..Len(line) : WordAt(line, i, w)

FailureVocabulary == { <<"e", "r", "r", "o", "r">>, <<"f", "a", "i", "l">>, <<"e", "x", "c", "e", "p", "t", "i", "o", "n">> }

WarningVocabulary == { <<"w", "a", "r", "n">>, <<"d", "e", "p", "r", "e", "c", "a", "t", "e", "d">> }

\* C19: the LogAnalyzer with its seeded list classifies with kind error every
\* line that holds ERROR, FAIL or Exception and matches no pattern that has a
\* language, and with kind warning every line that holds WARN or Deprecated
\* and none of ERROR, FAIL, Exception.
C19_GenericKinds ==
  (classifierCall.op = "LogAnalyzer.matchErrorPatterns" /\ analyzerPatterns = LogAnalyzerPatterns) =>
    /\ ( /\ HasVocabulary(classifierCall.line, FailureVocabulary)
         /\ \A n \in Matching(analyzerPatterns, classifierCall.line) :
              PatternObjects[analyzerPatterns[n]].language = NoLanguage )
         => classified.type = "error"
    /\ ( /\ HasVocabulary(classifierCall.line, WarningVocabulary)
         /\ ~HasVocabulary(classifierCall.line, FailureVocabulary) )
         => classified.type = "warning"

\* C20: when the pattern that classified the line configures no message
\* capture group, the message of the event is the whole line.
C20_WholeLineMessage ==
  classifierCall.op # "none" =>
    LET matching == Matching(CalledPatterns, classifierCall.line)
                      \cap Eligible(CalledPatterns, classifierCall.language)
    IN  ( /\ matching # {}
          /\ PatternObjects[CalledPatterns[First(matching)]].captureGroups.message = 0 )
          => classified.message = classifierCall.line

\* the positions of the generic patterns of a list: those without a language
GenericPositions(patterns) ==
  { n \in 1..Len(patterns) : PatternObjects[patterns[n]].language = NoLanguage }

\* C21: in a seeded pattern list every pattern that has a language stands
\* before the generic error and warning patterns; a classification over a
\* seeded list of a line that a pattern with a language matches is made by
\* such a pattern, and a line that holds ERROR, FAIL or Exception is
\* classified by the LogAnalyzer and by the ErrorWatcher.
C21_GenericLast ==
  ( /\ classifierCall.op # "none"
    /\ CalledPatterns \in {LogAnalyzerPatterns, ErrorWatcherPatterns}
    /\ classifierCall.language = NoLanguage ) =>
    LET generic == GenericPositions(CalledPatterns)
        specific == (1..Len(CalledPatterns)) \ generic
    IN  /\ \A g \in generic, sp \in specific : sp < g
        /\ (Matching(CalledPatterns, classifierCall.line) \cap specific # {}) =>
             (classified # Null /\ classified.language # NoLanguage)
        /\ HasVocabulary(classifierCall.line, FailureVocabulary) => classified # Null

(***************************************************************************)
(* Properties of the watching of panes                                     *)
(***************************************************************************)
\* C22: a pane that is not watched (stopWatching returned and startWatching
\* was not called again) has no file watch, no running build process and an
\* empty history, and no event is emitted for it.
C22_StoppedIsSilent ==
  /\ [](\A p \in TargetPanes :
          p \notin watchedPanes =>
            /\ p \notin tailedPanes
            /\ ~Has(buildWatchers, p)
            /\ \A k \in 1..Len(buildProcesses) :
                 buildProcesses[k].paneId = p => buildProcesses[k].state # "running"
            /\ getErrors(p) = <<>>)
  /\ [][Len(emitted') > Len(emitted) =>
          emitted'[Len(emitted')].paneId \in watchedPanes]_vars

\* C23: startWatching of a pane whose log file does not exist does not throw,
\* and the history of the pane is empty.
C23_MissingLogFileTolerated ==
  (watcherCall.op = "startWatching" /\ watcherCall.stats = "ENOENT") =>
    /\ watcherCall.threw = FALSE
    /\ watcherCall.paneId \notin tailedPanes => getErrors(watcherCall.paneId) = <<>>

\* the step is a startWatching of a pane that was not watched and whose log
\* file exists
StartsWatching ==
  /\ watcherCall'.op = "startWatching"
  /\ watcherCall'.stats = "ok"
  /\ watcherCall'.paneId \notin watchedPanes
  /\ watcherCall'.paneId \in watchedPanes'

\* the step is the exit of build process k
Exits(k) ==
  /\ Len(buildProcesses') = Len(buildProcesses)
  /\ buildProcesses[k].state # "exited"
  /\ buildProcesses'[k].state = "exited"

\* C24: startWatching of a pane whose log file exists does not throw and
\* leaves the log file of the pane watched whether spawn throws, returns a
\* process that cannot start or one that runs; the exit of a build process
\* changes no watched pane, no file watch, no history and no build watcher of
\* another pane; startWatching changes nothing of another pane.
C24_BuildFailureAbsorbed ==
  [][ /\ StartsWatching =>
           /\ watcherCall'.threw = FALSE
           /\ watcherCall'.paneId \in tailedPanes'
           /\ \A q \in TargetPanes \ {watcherCall'.paneId} :
                /\ q \in watchedPanes' <=> q \in watchedPanes
                /\ q \in tailedPanes' <=> q \in tailedPanes
                /\ Has(buildWatchers', q) <=> Has(buildWatchers, q)
           /\ UNCHANGED <<emitted, errorCache>>
      /\ \A k \in 1..Len(buildProcesses) :
           Exits(k) =>
             /\ UNCHANGED <<watchedPanes, tailedPanes, emitted, errorCache>>
             /\ \A q \in TargetPanes \ {buildProcesses[k].paneId} :
                  /\ Has(buildWatchers', q) <=> Has(buildWatchers, q)
                  /\ Has(buildWatchers, q) => buildWatchers'[q] = buildWatchers[q]
    ]_vars

\* the build process of p1 could not be started; startWatching returned, an
\* error of the log file of p1 was emitted since, and p2 is watched
C24_Witness ==
  /\ buildProcesses = << [ paneId |-> <<"p", "1">>, language |-> "typescript", state |-> "failed" ] >>
  /\ watchedPanes = TargetPanes
  /\ tailedPanes = TargetPanes
  /\ emitted = << [ event |-> "error", paneId |-> <<"p", "1">> ] >>
  /\ Len(getErrors(<<"p", "1">>)) = 1
  /\ watcherCall.threw = FALSE

(***************************************************************************)
(* Properties of McpIntegrator: reset and absorbed events                  *)
(***************************************************************************)
\* the events of the given name the recorded handler call emitted
Emitted(event) ==
  Cardinality({ i \in 1..Len(integratorCall.emitted) : integratorCall.emitted[i].event = event })

\* C25: clearHistory() leaves no trigger time and no active analysis, whatever
\* they were, and the first qualifying event for a pane after it emits one
\* analysis trigger, and with a language one documentation trigger.
C25_ClearHistoryResets ==
  [][ /\ integratorCall'.op = "clearHistory" /\ integratorCall' # integratorCall =>
           lastTriggers' = EmptyMap /\ activeAnalyses' = {}
      /\ \A p \in TargetPanes :
           (integratorCall.op = "clearHistory" /\ Qualifying(p)') =>
             /\ Emitted("trigger_sequential")' = 1
             /\ integratorCall'.op = "handleError" /\ integratorCall'.language # None =>
                  Emitted("trigger_context7")' = 1
    ]_vars

\* clearHistory() was called at the minute in which the analysis key of p1 and
\* the documentation key had fired
C25_Witness ==
  /\ integratorCall.op = "clearHistory"
  /\ Has(integratorCall.cleared, sequentialKey(<<"p", "1">>))
  /\ integratorCall.cleared[sequentialKey(<<"p", "1">>)] = clock
  /\ Has(integratorCall.cleared, context7Key(<<"js">>, <<"error">>))
  /\ clock > 0
  /\ lastTriggers = EmptyMap

\* key k has a trigger time that is less than window minutes old
Cooling(k, window) == Has(lastTriggers, k) /\ clock - lastTriggers[k] < window

\* C30: a qualifying event whose analysis key is cooling down emits no
\* analysis trigger and leaves the trigger time of the key as it was; an error
\* with a language whose documentation key is cooling down emits no
\* documentation trigger and leaves the trigger time of that key as it was;
\* the passing of time emits nothing and changes no trigger time.
C30_AbsorbedWhileCooling ==
  [][ /\ \A p \in TargetPanes :
           (Qualifying(p)' /\ clock' = clock /\ Cooling(sequentialKey(p), sequentialDebounce)) =>
             /\ Emitted("trigger_sequential")' = 0
             /\ Has(lastTriggers', sequentialKey(p))
             /\ lastTriggers'[sequentialKey(p)] = lastTriggers[sequentialKey(p)]
      /\ \A l \in { <<"js">> } :
           ( /\ integratorCall'.op = "handleError"
             /\ integratorCall'.language = l
             /\ clock' = clock
             /\ Cooling(context7Key(l, <<"error">>), documentationDebounce) ) =>
             /\ Emitted("trigger_context7")' = 0
             /\ Has(lastTriggers', context7Key(l, <<"error">>))
             /\ lastTriggers'[context7Key(l, <<"error">>)] = lastTriggers[context7Key(l, <<"error">>)]
      /\ clock' # clock => UNCHANGED <<lastTriggers, activeAnalyses, integratorCall>>
    ]_vars

\* an error with a language arrived for p1 two minutes after both of its keys
\* had fired: nothing was emitted for them and their trigger times stayed
C30_Witness ==
  /\ Qualifying(<<"p", "1">>)
  /\ integratorCall.op = "handleError"
  /\ integratorCall.language = <<"js">>
  /\ Emitted("trigger_sequential") = 0
  /\ Emitted("trigger_context7") = 0
  /\ clock = 2
  /\ Has(lastTriggers, sequentialKey(<<"p", "1">>))
  /\ lastTriggers[sequentialKey(<<"p", "1">>)] = 0
  /\ Has(lastTriggers, context7Key(<<"js">>, <<"error">>))
  /\ lastTriggers[context7Key(<<"js">>, <<"error">>)] = 0

(***************************************************************************)
(* Properties of CommandEscaper: execution results                         *)
(***************************************************************************)
\* C26: an executeCommand whose command was started, or could not be started,
\* returns a structured result whatever way the child settles; the exit
\* status of the result is 0 exactly when the child exited with 0, and it is
\* 124 exactly when the child ran into the timeout.
C26_TimeoutDistinguished ==
  (escaperCall.op = "executeCommand" /\ escaperCall.settled.kind # "none") =>
    /\ outcome = Accepted
    /\ result # NoResult
    /\ (result.exitCode = 0) <=> ~escaperCall.settled.rejected
    /\ (result.exitCode = 124) <=> (escaperCall.settled.kind = "timeout")

\* C27: initialize() throws 'tmux is not available' whenever the probe
\* tmux -V cannot be started, times out or exits with a status other than 0,
\* and it returns when the probe exits with 0.
C27_ProbeDecides ==
  (escaperCall.op = "initialize" /\ escaperCall.mkdir = "ok") =>
    /\ escaperCall.settled.kind # "none"
    /\ escaperCall.settled.rejected => outcome = TmuxNotAvailable
    /\ ~escaperCall.settled.rejected => outcome = Accepted

\* C28: listPorts() runs the netstat pipeline whenever the lsof pipeline
\* cannot be started, times out or exits with a status other than 0, and
\* after such an end of lsof its list is empty only when the netstat pipeline
\* ran and gave no port either.
C28_NetstatFallback ==
  (escaperCall.op = "listPorts" /\ escaperCall.lsof.rejected) =>
    /\ escaperCall.netstat.kind # "none"
    /\ result.ports = <<>> =>
         (escaperCall.netstat.rejected \/ escaperCall.netstat.stdout = <<>>)

(***************************************************************************)
(* Properties of the classifiers: numeric roles                            *)
(***************************************************************************)
\* C29: the entry a classifier builds never carries NaN as its line or its
\* column: a numeric role whose captured text is not an integer is left out
\* of the entry.
C29_NoNaN ==
  (classifierCall # NoClassification /\ classified # Null) =>
    /\ classified.line # <<NaN>>
    /\ classified.column # <<NaN>>

(***************************************************************************)
(* Properties of PaneIdResolver: the sweep and lastSeen                    *)
(***************************************************************************)
\* C31: when a step of cleanupOldMappings ends, every mapping reachable
\* through nativeToStructured or through structuredToNative was seen within
\* the last hour.
C31_SweepLeavesFresh ==
  [][ (resolverCall'.op = "sweep" /\ now' = now) =>
        /\ \A h \in DOMAIN nativeToStructured' :
             nativeToStructured'[h].lastSeen >= now - MaxAgeTicks
        /\ \A id \in DOMAIN structuredToNative' :
             structuredToNative'[id].lastSeen >= now - MaxAgeTicks
    ]_vars

\* C32: a step of resolveToNative or resolveToStructured that finds a mapping
\* leaves that mapping with lastSeen = now: the mapping of the native handle
\* asked for, the mapping registered under the structured id asked for, or
\* the mapping the reconstruction scan returns the handle of.
C32_ResolutionRefreshes ==
  [][ (resolverCall'.op \in {"resolveToNative", "resolveToStructured"} /\ now' = now) =>
        LET paneId == resolverCall'.paneId
            found == resolverCall'.result
        IN  /\ (StartsWith(paneId, "%") /\ Has(nativeToStructured, paneId)) =>
                 nativeToStructured'[paneId].lastSeen = now
            /\ (resolverCall'.op = "resolveToNative" /\ Has(structuredToNative, paneId)) =>
                 structuredToNative'[paneId].lastSeen = now
            /\ ( /\ resolverCall'.op = "resolveToNative"
                 /\ ~StartsWith(paneId, "%")
                 /\ ~Has(structuredToNative, paneId)
                 /\ found # paneId ) =>
                 nativeToStructured'[found].lastSeen = now
    ]_vars

(***************************************************************************)
(* Properties of FileWatcher: truncation, delivery and stopping            *)
(***************************************************************************)
\* handler h takes the step in which its stat resolves
StatStep(h) == handlers[h].pc = "stat" /\ handlers'[h].pc # "stat"

\* handler h takes the step in which its read resolves
ReadStep(h) == handlers[h].pc = "read" /\ handlers'[h].pc = "idle"

\* the bytes the file holds at the offsets from + 1 .. to
FileBytes(from, to) == SubSeq(fileContent, from + 1, to)

\* C33: a handler whose stat finds the file shorter than the offset it read
\* sets the recorded offset to 0 and invokes no callback; the first handler
\* that starts after that, with content in the file, starts from offset 0,
\* and when it has found content it invokes the callback with the bytes
\* [0, size) of the file.
C33_TruncationRestarts ==
  [][ \A h \in 1..MaxHandlers :
        /\ (StatStep(h) /\ Len(fileContent) < handlers[h].currentPosition) =>
             /\ filePositions'[LogFile] = 0
             /\ delivered' = delivered
        /\ ( /\ tailerCall.op = "truncated"
             /\ handlers[h].pc = "idle" /\ handlers'[h].pc = "stat"
             /\ Len(fileContent) > 0 ) =>
             handlers'[h].currentPosition = 0
        /\ (ReadStep(h) /\ tailerCall = [ op |-> "handleFileChange", h |-> h, after |-> "truncated" ]) =>
             delivered' = Append(delivered, [ offset |-> 0, content |-> FileBytes(0, handlers[h].size) ])
    ]_vars

\* C34: a handler whose stat found the file longer than the offset it read
\* invokes the callback once, with the bytes [offset, size) of the file, and
\* sets the recorded offset to size.
C34_DeliversEveryByte ==
  [][ \A h \in 1..MaxHandlers :
        ReadStep(h) =>
          /\ delivered' = Append(delivered,
                                 [ offset |-> handlers[h].currentPosition,
                                   content |-> FileBytes(handlers[h].currentPosition, handlers[h].size) ])
          /\ filePositions'[LogFile] = handlers[h].size
    ]_vars

\* C35: once stopWatching(filePath) or stopAll() has returned, no callback is
\* invoked and no offset is recorded for the file, whatever handlers were in
\* flight.
C35_StoppedIsFinal ==
  [][ tailerCall.op \in { "stopWatching", "stopAll" } =>
        /\ delivered' = delivered
        /\ ~Has(filePositions', LogFile)
    ]_vars


(***************************************************************************)
(* Properties of the pattern lists: addCustomPattern and removePattern     *)
(***************************************************************************)
\* the number of patterns of a list that carry a name
NameCount(patterns, name) ==
  Cardinality({ n \in 1..Len(patterns) : PatternObjects[patterns[n]].name = name })

\* a list without its element at a position
Without(patterns, index) ==
  SubSeq(patterns, 1, index - 1) \o SubSeq(patterns, index + 1, Len(patterns))

\* a call that made a list shorter left no pattern with the name it removed
\* and kept the others in their order; a call that made it longer appended
\* one pattern and left the others where they were
ListEdited(before, after) ==
  /\ Len(after) < Len(before) =>
       /\ \A n \in 1..Len(before) :
            LET name == PatternObjects[before[n]].name
            IN  NameCount(after, name) < NameCount(before, name) => NameCount(after, name) = 0
       /\ \E index \in 1..Len(before) : after = Without(before, index)
  /\ Len(after) > Len(before) =>
       /\ Len(after) = Len(before) + 1
       /\ SubSeq(after, 1, Len(before)) = before

\* C36: after removePattern(name) the pattern list holds no pattern with
\* that name and the remaining patterns keep their relative order;
\* addCustomPattern appends at the end of the list and never reorders or
\* replaces existing patterns, also when the name is already present.
C36_PatternListEdits ==
  [][ /\ ListEdited(analyzerPatterns, analyzerPatterns')
      /\ ListEdited(watcherPatterns, watcherPatterns')
    ]_vars


(***************************************************************************)
(* Properties of ErrorWatcher: watched panes and build watchers            *)
(***************************************************************************)
\* C37: a pane is reported as watched exactly when a live subscription to
\* its log file exists; a startWatching call that fails leaves the pane not
\* watched, and a later startWatching of that pane whose log file exists
\* sets up the subscription.
C37_WatchedIsSubscribed ==
  /\ [](\A p \in TargetPanes : p \in watchedPanes <=> p \in tailedPanes)
  /\ [][ (watcherCall'.op = "startWatching" /\ watcherCall'.threw) =>
            watcherCall'.paneId \notin watchedPanes' ]_vars
  /\ [][ ( /\ watcherCall.op = "startWatching" /\ watcherCall.threw
           /\ watcherCall'.op = "startWatching" /\ watcherCall'.stats = "ok"
           /\ watcherCall'.paneId = watcherCall.paneId
         ) =>
            watcherCall'.paneId \in tailedPanes' ]_vars


\* the build processes spawned for a pane
SpawnedFor(p) == { k \in 1..Len(buildProcesses) : buildProcesses[k].paneId = p }

\* C38: the build-watcher table entry of a pane refers to the build process
\* most recently spawned for the pane, and every running build process is in
\* the table: the late exit event of a process that stopWatching killed does
\* not remove the entry of a process started afterwards for the same pane.
C38_TableTracksLatest ==
  /\ \A p \in TargetPanes :
       Has(buildWatchers, p) =>
         /\ buildWatchers[p] \in SpawnedFor(p)
         /\ \A k \in SpawnedFor(p) : k <= buildWatchers[p]
  /\ \A k \in 1..Len(buildProcesses) :
       buildProcesses[k].state = "running" =>
         /\ Has(buildWatchers, buildProcesses[k].paneId)
         /\ buildWatchers[buildProcesses[k].paneId] = k


(***************************************************************************)
(* Properties of McpIntegrator: the active analyses                        *)
(***************************************************************************)
\* the analysis triggers for a pane that the recorded handler call emitted
TriggersFor(p) ==
  { i \in 1..Len(integratorCall.emitted) :
      /\ integratorCall.emitted[i].event = "trigger_sequential"
      /\ integratorCall.emitted[i].paneId = p }

\* C39: when handleError, handleMultipleErrors or handleProcessCrash has
\* returned, no key is in the set of active analyses, also when the listener
\* of the trigger threw; and an event for a pane that a listener raises while
\* the key of the pane is firing emits no second trigger for the pane.
C39_NoKeyStaysFiring ==
  /\ activeAnalyses = {}
  /\ \A p \in TargetPanes : Cardinality(TriggersFor(p)) <= 1

\* handleError fired the analysis of p1 and the listener of the trigger
\* called handleProcessCrash for p1 while the key was active: after the
\* 'mcp_event' of the crash no second trigger follows
C39_Witness ==
  /\ integratorCall.op = "handleError"
  /\ integratorCall.listener = "reenters"
  /\ Len(integratorCall.emitted) >= 3
  /\ integratorCall.emitted[2] = [ event |-> "trigger_sequential", paneId |-> <<"p", "1">>, type |-> "error_analysis" ]
  /\ integratorCall.emitted[3] = [ event |-> "mcp_event", paneId |-> <<"p", "1">>, type |-> "process_crashed" ]
  /\ activeAnalyses = {}


(***************************************************************************)
(* Properties of SessionSerializer: session handoffs                       *)
(***************************************************************************)
\* the calls of acceptSessionHandoff for a handoff id that returned the session
AcceptedBy(handoffId) ==
  { c \in 1..Len(accepts) : accepts[c].handoffId = handoffId /\ accepts[c].returned = "session" }

\* C40: of the acceptSessionHandoff calls made for one handoff id, however
\* they interleave, at most one returns the session and the others return
\* null, and a call made after expiresAt returns null.
C40_AcceptedOnce ==
  \A h \in 1..Len(handoffs) :
    /\ Cardinality(AcceptedBy(handoffs[h].handoffId)) <= 1
    /\ \A c \in 1..Len(accepts) :
         ( /\ accepts[c].handoffId = handoffs[h].handoffId
           /\ accepts[c].calledAt > handoffs[h].expiresAt
           /\ accepts[c].pc = "returned" ) => accepts[c].returned = "null"

====
